---- MODULE Spec2Model ----
(***************************************************************************)
(* A model of the FuelQ station pipeline of src/App.tsx: the feed          *)
(* normalizer (parseStationData), the directory loader's site conversion,  *)
(* the matching engine (matchStationsWithUKFuels) and the member-price     *)
(* derivation of the station cards.                                        *)
(*                                                                         *)
(* JavaScript values are tagged records.  A primitive is [t, n, s]: t is   *)
(* the type tag, n the number (in units of 1/Unit, so that the code's      *)
(* /100 and *100 are exact on every value the model draws), s the string   *)
(* as a sequence of one-character strings.  A list is [t |-> "list",       *)
(* l |-> <<...>>]; an object is a record with t = "obj" and one field per  *)
(* property the code reads, Undef standing for an absent property.         *)
(***************************************************************************)
EXTENDS Integers, Sequences, FiniteSets, TLC

VARIABLES
    liveStations,    \* matchStationsWithUKFuels: the live list passed in
    ukFuelsSites,    \* matchStationsWithUKFuels: the directory passed in
    averagePrices,   \* matchStationsWithUKFuels: the averages passed in
    now,             \* the wall clock read by new Date()
    matchResult,     \* what the first matching run returned
    rerunResult,     \* what a later run on the same inputs returned
    feedData,        \* parseStationData: one retailer's raw payload
    feedRetailer,    \* parseStationData: the retailer's name
    parsedStations,  \* what parseStationData returned
    cardStation,     \* the station a card is rendered for
    card,            \* the member prices the card derived
    policy,          \* the pricing policy the build carries
    allStations,     \* React state: the stations of all feeds
    matchedStations, \* React state: the matched list of the last pass
    searchQuery,     \* React state: the text of the search box
    displayedStations, \* React state: the list the screens show
    dirResponse,     \* what the directory source answers to the loader
    loadResult,      \* what loadUKFuelsSites returned
    workerResponse,  \* what the worker answers to the request for all feeds
    demoSeed,        \* the draws of Math.random() in generateDemoStations
    fetched,         \* what a pass of fetchFuelPrices collected and set
    session,         \* React state: isLoggedIn, userType, activeScreen, flags
    runs,            \* the invocations of fetchFuelPrices in flight
    directoryRequests, \* how many requests the directory source has received
    priceRecord,     \* the feed record whose prices are extracted
    extracted        \* the price slots of that record along the cascade

vars == <<liveStations, ukFuelsSites, averagePrices, now, matchResult, rerunResult,
          feedData, feedRetailer, parsedStations, cardStation, card, policy,
          allStations, matchedStations, searchQuery, displayedStations,
          dirResponse, loadResult, workerResponse, demoSeed, fetched,
          session, runs, directoryRequests, priceRecord, extracted>>
matchVars == <<liveStations, ukFuelsSites, averagePrices, matchResult, rerunResult>>
feedVars == <<feedData, feedRetailer, parsedStations>>
priceVars == <<priceRecord, extracted>>
cardVars == <<cardStation, card, policy>>
filterVars == <<allStations, matchedStations, searchQuery, displayedStations>>
\* the state of the app around the three engines
loaderVars == <<dirResponse, loadResult>>
fetchVars == <<workerResponse, demoSeed, fetched>>
sessionVars == <<session, runs, directoryRequests>>
appVars == <<filterVars, loaderVars, fetchVars, sessionVars>>

(***************************************************************************)
(* JavaScript values                                                       *)
(***************************************************************************)
Unit == 10 ^ 5

Undef == [t |-> "undef", n |-> 0, s |-> <<>>]
Null == [t |-> "null", n |-> 0, s |-> <<>>]
NaN == [t |-> "nan", n |-> 0, s |-> <<>>]
Num(n) == [t |-> "num", n |-> n, s |-> <<>>]
Str(s) == [t |-> "str", n |-> 0, s |-> s]
Bool(b) == [t |-> "bool", n |-> IF b THEN 1 ELSE 0, s |-> <<>>]
List(l) == [t |-> "list", l |-> l]

\* ToBoolean: what `if (v)`, `v || w`, `v && w` and `!v` test.
Truthy(v) ==
    CASE v.t = "undef" -> FALSE
      [] v.t = "null" -> FALSE
      [] v.t = "nan" -> FALSE
      [] v.t = "num" -> v.n # 0
      [] v.t = "str" -> v.s # <<>>
      [] v.t = "bool" -> v.n = 1
      [] OTHER -> TRUE

\* a || b
Or(a, b) == IF Truthy(a) THEN a ELSE b

\* o.f: undefined when o is a primitive or has no such property.  (Reading a
\* property of null or undefined throws; the callers below test for that.)
Prop(o, f) == IF o.t = "obj" /\ f \in DOMAIN o THEN o[f] ELSE Undef

(***************************************************************************)
(* Strings                                                                 *)
(***************************************************************************)
LowerCase == <<"a", "b", "c", "d", "e", "f", "g", "h", "i", "j", "k", "l", "m",
               "n", "o", "p", "q", "r", "s", "t", "u", "v", "w", "x", "y", "z">>
UpperCase == <<"A", "B", "C", "D", "E", "F", "G", "H", "I", "J", "K", "L", "M",
               "N", "O", "P", "Q", "R", "S", "T", "U", "V", "W", "X", "Y", "Z">>
Digits == <<"0", "1", "2", "3", "4", "5", "6", "7", "8", "9">>

Range(f) == {f[i] : i \in DOMAIN f}

\* the upper-case letter of each lower-case letter, and the other way round
UpperOf == [c \in Range(LowerCase) |-> UpperCase[CHOOSE i \in DOMAIN LowerCase : LowerCase[i] = c]]
LowerOf == [c \in Range(UpperCase) |-> LowerCase[CHOOSE i \in DOMAIN UpperCase : UpperCase[i] = c]]

ToUpperChar(c) == IF c \in DOMAIN UpperOf THEN UpperOf[c] ELSE c

ToLowerChar(c) == IF c \in DOMAIN LowerOf THEN LowerOf[c] ELSE c

\* String.prototype.toUpperCase / toLowerCase
ToUpperCase(s) == [i \in DOMAIN s |-> ToUpperChar(s[i])]
ToLowerCase(s) == [i \in DOMAIN s |-> ToLowerChar(s[i])]

IsSpace(c) == c = " "

RECURSIVE TrimLeft(_)
TrimLeft(s) == IF s # <<>> /\ IsSpace(Head(s)) THEN TrimLeft(Tail(s)) ELSE s

RECURSIVE TrimRight(_)
TrimRight(s) ==
    IF s # <<>> /\ IsSpace(s[Len(s)]) THEN TrimRight(SubSeq(s, 1, Len(s) - 1)) ELSE s

\* String.prototype.trim
Trim(s) == TrimRight(TrimLeft(s))

\* String.prototype.includes
Includes(s, sub) ==
    \E i \in 0 .. (Len(s) - Len(sub)) : SubSeq(s, i + 1, i + Len(sub)) = sub

\* the characters /[^A-Z0-9]/ leaves in place
AZ09 == Range(UpperCase) \cup Range(Digits)

IsAZ09(c) == c \in AZ09

\* normalizeString's result for a string value
NormalizeChars(s) == SelectSeq(Trim(ToUpperCase(s)), IsAZ09)


(***************************************************************************)
(* Numbers and their conversions                                           *)
(***************************************************************************)
Abs(n) == IF n < 0 THEN -n ELSE n

DigitVal(c) == (CHOOSE i \in DOMAIN Digits : Digits[i] = c) - 1
IsDigit(c) == c \in Range(Digits)

RECURSIVE NatToString(_)
NatToString(k) ==
    IF k < 10 THEN <<Digits[k + 1]>>
    ELSE NatToString(k \div 10) \o <<Digits[(k % 10) + 1]>>

\* the fractional digits of f/10^w, trailing zeros dropped
RECURSIVE FracToString(_, _)
FracToString(f, w) ==
    IF f = 0 \/ w = 0 THEN <<>>
    ELSE <<Digits[(f \div (10 ^ (w - 1))) + 1]>> \o FracToString(f % (10 ^ (w - 1)), w - 1)

\* Number.prototype.toString of a finite number
NumberToString(n) ==
    (IF n < 0 THEN <<"-">> ELSE <<>>)
    \o NatToString(Abs(n) \div Unit)
    \o (IF Abs(n) % Unit = 0 THEN <<>> ELSE <<".">> \o FracToString(Abs(n) % Unit, 5))

\* String(v), as a template literal `${v}` and toString() convert a primitive
ToStringJS(v) ==
    CASE v.t = "str" -> v.s
      [] v.t = "num" -> NumberToString(v.n)
      [] v.t = "nan" -> <<"N", "a", "N">>
      [] v.t = "null" -> <<"n", "u", "l", "l">>
      [] v.t = "bool" -> IF v.n = 1 THEN <<"t", "r", "u", "e">> ELSE <<"f", "a", "l", "s", "e">>
      [] OTHER -> <<"u", "n", "d", "e", "f", "i", "n", "e", "d">>

\* the longest prefix of s made of decimal digits
RECURSIVE DigitPrefix(_)
DigitPrefix(s) ==
    IF s # <<>> /\ IsDigit(Head(s)) THEN <<Head(s)>> \o DigitPrefix(Tail(s)) ELSE <<>>

RECURSIVE DigitsToNat(_)
DigitsToNat(d) ==
    IF d = <<>> THEN 0 ELSE DigitsToNat(SubSeq(d, 1, Len(d) - 1)) * 10 + DigitVal(d[Len(d)])

\* the value, in units, of the fractional digits d (digits past the fifth are cut)
RECURSIVE FracToUnits(_, _)
FracToUnits(d, w) ==
    IF d = <<>> \/ w = 0 THEN 0
    ELSE DigitVal(Head(d)) * (10 ^ (w - 1)) + FracToUnits(Tail(d), w - 1)

\* the number a parsed integer part ip and fractional part fp denote; NaN
\* when neither holds a digit
MakeNumber(ip, fp) ==
    IF ip = <<>> /\ fp = <<>> THEN NaN
    ELSE Num(DigitsToNat(ip) * Unit + FracToUnits(fp, 5))

\* the digits after a decimal point at the head of rest
FractionDigits(rest) ==
    IF rest # <<>> /\ Head(rest) = "." THEN DigitPrefix(Tail(rest)) ELSE <<>>

ParseAfterInteger(u, ip) == MakeNumber(ip, FractionDigits(SubSeq(u, Len(ip) + 1, Len(u))))

ParseUnsigned(u) == ParseAfterInteger(u, DigitPrefix(u))

StripSign(t) == IF t # <<>> /\ Head(t) \in {"-", "+"} THEN Tail(t) ELSE t

ApplySign(t, v) == IF t # <<>> /\ Head(t) = "-" /\ v.t = "num" THEN Num(-v.n) ELSE v

ParseSigned(t) == ApplySign(t, ParseUnsigned(StripSign(t)))

\* parseFloat of a string: leading blanks, a sign, digits, a point, digits;
\* NaN when no digit is found
ParseFloatChars(s) == ParseSigned(TrimLeft(s))

\* parseFloat(v): the argument is converted to a string and parsed
parseFloat(v) ==
    CASE v.t = "num" -> v
      [] v.t = "str" -> ParseFloatChars(v.s)
      [] OTHER -> NaN

\* v / 100 and v * 100 on a number (NaN stays NaN)
Div100(v) == IF v.t = "num" THEN Num(v.n \div 100) ELSE NaN
Mul100(v) == IF v.t = "num" THEN Num(v.n * 100) ELSE NaN

\* typeof v === 'number'
TypeofNumber(v) == v.t \in {"num", "nan"}

\* normalizeString: '' for a falsy argument, else str.toString() upper-cased,
\* trimmed, with every character outside A-Z0-9 removed
normalizeString(v) == IF ~Truthy(v) THEN <<>> ELSE NormalizeChars(ToStringJS(v))

\* a && b
And(a, b) == IF Truthy(a) THEN b ELSE a

(***************************************************************************)
(* The directory loader's conversion of one raw site (loadUKFuelsSites)    *)
(***************************************************************************)
\* (x || y || '').toUpperCase().trim() on string-valued properties
UpperTrim(v) == Str(Trim(ToUpperCase(ToStringJS(v))))

ConvertSite(site) ==
    [t |-> "obj",
     siteNo |-> site.siteNo,
     altSiteNo |-> Or(site.altSiteNo, Num(0)),
     latitude |-> Or(parseFloat(Or(site.lat, site.latitude)), Num(0)),
     longitude |-> Or(parseFloat(Or(site.lng, site.longitude)), Num(0)),
     siteName |-> UpperTrim(Or(Or(site.name, site.siteName), Str(<<>>))),
     street1 |-> UpperTrim(Or(Or(site.addr, site.street1), Str(<<>>))),
     town |-> UpperTrim(Or(site.town, Str(<<>>))),
     postCode |-> UpperTrim(Or(Or(site.postcode, site.postCode), Str(<<>>))),
     brand |-> UpperTrim(Or(site.brand, Str(<<>>))),
     hours24 |-> Or(Or(site.h24, site.hours24), Bool(FALSE)),
     hgvAccess |-> Or(Or(site.hgv, site.hgvAccess), Bool(FALSE)),
     petrol |-> Or(site.petrol, Bool(FALSE)),
     diesel |-> Or(site.diesel, Bool(FALSE)),
     bands |-> Or(site.bands, Str(<<>>))]

RawSiteProps ==
    {"siteNo", "altSiteNo", "lat", "latitude", "lng", "longitude", "name", "siteName",
     "addr", "street1", "town", "postcode", "postCode", "brand", "h24", "hours24",
     "hgv", "hgvAccess", "petrol", "diesel", "bands"}

\* a raw site with every property the loader reads (an absent one undefined)
FullRawSite(site) == [f \in RawSiteProps |-> Prop(site, f)]

\* the values (x || y || '') that toUpperCase is called on
UpperTrimmed(site) ==
    <<Or(Or(Prop(site, "name"), Prop(site, "siteName")), Str(<<>>)),
      Or(Or(Prop(site, "addr"), Prop(site, "street1")), Str(<<>>)),
      Or(Prop(site, "town"), Str(<<>>)),
      Or(Or(Prop(site, "postcode"), Prop(site, "postCode")), Str(<<>>)),
      Or(Prop(site, "brand"), Str(<<>>))>>

\* whether the map callback throws for the site: a null or undefined site,
\* or a value without toUpperCase where a string is expected
SiteConversionThrows(site) ==
    \/ site.t \in {"null", "undef"}
    \/ \E i \in DOMAIN UpperTrimmed(site) : UpperTrimmed(site)[i].t # "str"

\* the loader's result when it returns []: setUkFuelsSites is not called
FailSoft(stored) == [threw |-> FALSE, sites |-> <<>>, stored |-> stored]

IsConvertible(site) == ~SiteConversionThrows(site)

\* data.data.map(site => ({...}))
ConvertedSites(l) == [i \in DOMAIN l |-> ConvertSite(FullRawSite(l[i]))]

\* setUkFuelsSites(sites); return sites;
Loaded(sites) == [threw |-> FALSE, sites |-> sites, stored |-> sites]

\* faulty variant: a site whose conversion throws is left out and the others
\* are stored and returned
ConvertSites_SkipsFailing(data, stored) ==
    IF data.t # "list" THEN FailSoft(stored)
    ELSE Loaded(ConvertedSites(SelectSeq(data.l, IsConvertible)))

\* const sites = data.data.map(...); setUkFuelsSites(sites); return sites;
\* data.data without map, or a site the callback throws for, ends in the
\* catch block
ConvertSites(data, stored) ==
    IF data.t # "list" \/ \E i \in DOMAIN data.l : SiteConversionThrows(data.l[i])
    THEN FailSoft(stored)
    ELSE Loaded(ConvertedSites(data.l))

\* loadUKFuelsSites() for the answer `response` of the directory source,
\* with `stored` the ukFuelsSites state: the list returned and the state
\* after.  A rejected fetch, a body that is not JSON, and a null body end in
\* the catch block.
loadUKFuelsSites(response, stored) ==
    IF response.kind = "rejected" THEN FailSoft(stored)
    ELSE IF ~response.ok THEN FailSoft(stored)
    ELSE IF response.body.t \in {"unparsable", "null"} THEN FailSoft(stored)
    ELSE IF ~(Truthy(Prop(response.body, "success")) /\ Truthy(Prop(response.body, "data")))
    THEN FailSoft(stored)
    ELSE ConvertSites(Prop(response.body, "data"), stored)

(***************************************************************************)
(* The matching engine (matchStationsWithUKFuels)                          *)
(***************************************************************************)
\* minDistance starts at 0.01 degrees; a site within 0.001 needs no brand check
OuterThreshold == 1000
InnerThreshold == 100

\* the sites, from position i on, whose key (keys[i] for sites[i]) is k, in
\* list order
RECURSIVE SitesWithKey(_, _, _, _)
SitesWithKey(sites, keys, k, i) ==
    IF i > Len(sites) THEN <<>>
    ELSE (IF keys[i] = k THEN <<sites[i]>> ELSE <<>>)
         \o SitesWithKey(sites, keys, k, i + 1)

PostcodeKey(site) == normalizeString(site.postCode)

\* `${normBrand}_${normTown}`
BrandTownKeyOf(brand, town) == normalizeString(brand) \o <<"_">> \o normalizeString(town)

\* the key under which a site enters ukFuelsBrandTownMap; <<>> when it does not
BrandTownKey(site) ==
    IF normalizeString(site.brand) # <<>> /\ normalizeString(site.town) # <<>>
    THEN BrandTownKeyOf(site.brand, site.town)
    ELSE <<>>

\* ukFuelsPostcodeMap: normalized postcode -> the sites that have it
ukFuelsPostcodeMap(sites) ==
    [k \in {PostcodeKey(sites[i]) : i \in DOMAIN sites} \ {<<>>}
        |-> SitesWithKey(sites, [i \in DOMAIN sites |-> PostcodeKey(sites[i])], k, 1)]

\* ukFuelsBrandTownMap: brand_town key -> the sites that have it
ukFuelsBrandTownMap(sites) ==
    [k \in {BrandTownKey(sites[i]) : i \in DOMAIN sites} \ {<<>>}
        |-> SitesWithKey(sites, [i \in DOMAIN sites |-> BrandTownKey(sites[i])], k, 1)]

\* candidates.find(c => normalizeString(c.brand) === stationBrand)
RECURSIVE FindBrand(_, _)
FindBrand(candidates, stationBrand) ==
    IF candidates = <<>> THEN Undef
    ELSE IF normalizeString(Head(candidates).brand) = stationBrand THEN Head(candidates)
    ELSE FindBrand(Tail(candidates), stationBrand)

\* the candidate taken: the only one, else the first of the station's brand,
\* else the first
PickCandidate(candidates, stationBrand) ==
    IF Len(candidates) = 1 THEN candidates[1]
    ELSE Or(FindBrand(candidates, stationBrand), candidates[1])

\* if (stationPostcode && ukFuelsPostcodeMap[stationPostcode]) ...
PostcodeLookup(stationPostcode, stationBrand, map) ==
    IF stationPostcode # <<>> /\ stationPostcode \in DOMAIN map
    THEN PickCandidate(map[stationPostcode], stationBrand)
    ELSE Null

\* strategy 1: the postcode lookup
PostcodeMatch(station, sites) ==
    PostcodeLookup(normalizeString(station.postcode), normalizeString(station.brand),
                   ukFuelsPostcodeMap(sites))

\* distance < minDistance, on squares; minDistance never exceeds 0.01, so a
\* coordinate difference of 0.01 or more already decides it
Closer(dlat, dlon, min2) ==
    /\ Abs(dlat) < OuterThreshold
    /\ Abs(dlon) < OuterThreshold
    /\ dlat * dlat + dlon * dlon < min2

\* brandsMatch: either normalized brand contains the other
BrandsMatch(siteBrand, stationBrand) ==
    Includes(siteBrand, stationBrand) \/ Includes(stationBrand, siteBrand)

\* the squared distance dlat^2 + dlon^2, for differences below 0.01
Square2(dlat, dlon) == dlat * dlat + dlon * dlon

\* faulty variant: the scan takes every nearer site, whatever its brand
TakesSite_IgnoresBrand(station, ukSite, min2) ==
    /\ ukSite.latitude.t = "num"
    /\ ukSite.longitude.t = "num"
    /\ Closer(station.latitude.n - ukSite.latitude.n,
              station.longitude.n - ukSite.longitude.n, min2)

\* whether the scan takes ukSite as the new closestSite (a distance to a
\* site whose coordinate is NaN is NaN, below nothing)
TakesSite(station, ukSite, min2) ==
    /\ ukSite.latitude.t = "num"
    /\ ukSite.longitude.t = "num"
    /\ Closer(station.latitude.n - ukSite.latitude.n,
              station.longitude.n - ukSite.longitude.n, min2)
    /\ \/ Square2(station.latitude.n - ukSite.latitude.n,
                  station.longitude.n - ukSite.longitude.n) < InnerThreshold * InnerThreshold
       \/ BrandsMatch(normalizeString(ukSite.brand), normalizeString(station.brand))

\* the forEach over ukFuelsSites of strategy 2, from site i on, with the
\* closest site and the squared minDistance so far
RECURSIVE ProximityScan(_, _, _, _, _)
ProximityScan(station, sites, i, closestSite, min2) ==
    IF i > Len(sites) THEN closestSite
    ELSE IF TakesSite(station, sites[i], min2)
    THEN ProximityScan(station, sites, i + 1, sites[i],
                       Square2(station.latitude.n - sites[i].latitude.n,
                               station.longitude.n - sites[i].longitude.n))
    ELSE ProximityScan(station, sites, i + 1, closestSite, min2)

\* strategy 2: the nearest qualifying site, tried when strategy 1 left
\* matchedSite null and the station has non-zero coordinates
ProximityMatch(station, sites, matchedSite) ==
    IF ~Truthy(matchedSite) /\ Truthy(station.latitude) /\ Truthy(station.longitude)
    THEN ProximityScan(station, sites, 1, Null, OuterThreshold * OuterThreshold)
    ELSE matchedSite

\* ukFuelsBrandTownMap[brandTownKey][0], when the key is there
BrandTownLookup(key, map) == IF key \in DOMAIN map THEN map[key][1] ELSE Null

\* strategy 3: the brand_town lookup, tried when matchedSite is still null and
\* the station's normalized brand and town are both non-empty
BrandTownMatch(station, sites, matchedSite) ==
    IF /\ ~Truthy(matchedSite)
       /\ normalizeString(station.brand) # <<>>
       /\ normalizeString(station.town) # <<>>
    THEN BrandTownLookup(BrandTownKeyOf(station.brand, station.town), ukFuelsBrandTownMap(sites))
    ELSE matchedSite

\* faulty variant: proximity is tried before the postcode lookup
FindSite_ProximityFirst(station, sites) ==
    BrandTownMatch(station, sites,
                   Or(ProximityMatch(station, sites, Null), PostcodeMatch(station, sites)))

\* matchedSite of one live station: the three strategies in the code's order
FindSite(station, sites) ==
    BrandTownMatch(station, sites, ProximityMatch(station, sites, PostcodeMatch(station, sites)))

\* the properties a station object can carry; an absent one reads as undefined
StationFields ==
    {"t", "id", "brand", "name", "address", "postcode", "town", "latitude", "longitude",
     "petrol_price", "diesel_price", "super_price", "last_updated", "is_open",
     "facilities", "ukFuelsSiteNo", "ukFuelsAltSiteNo", "hasLivePricing", "hours24",
     "hgvAccess", "isUKFuelsSite", "bands"}

EmptyStation == [f \in StationFields |-> IF f = "t" THEN "obj" ELSE Undef]

\* new Date().toISOString(): a string that names the instant
ToISOString(time) == Str(<<"T">> \o NatToString(time))

\* [hours24 && '24 Hours', hgvAccess && 'HGV Access'].filter(Boolean)
SiteFacilities(site) ==
    List(SelectSeq(<<And(site.hours24, Str(<<"2", "4", " ", "H", "o", "u", "r", "s">>)),
                     And(site.hgvAccess, Str(<<"H", "G", "V", " ", "A", "c", "c", "e", "s", "s">>))>>,
                   Truthy))

\* faulty variant: the merged entry keeps the coordinates of the feed
MergedStation_KeepsCoordinates(station, matchedSite) ==
    [station EXCEPT
        !.id = Str(<<"m", "a", "t", "c", "h", "e", "d", "-">> \o ToStringJS(matchedSite.siteNo)
                   \o <<"-">> \o ToStringJS(station.id)),
        !.ukFuelsSiteNo = matchedSite.siteNo,
        !.ukFuelsAltSiteNo = matchedSite.altSiteNo,
        !.name = Or(matchedSite.siteName, station.name),
        !.address = Or(matchedSite.street1, station.address),
        !.town = Or(matchedSite.town, station.town),
        !.postcode = Or(matchedSite.postCode, station.postcode),
        !.latitude = station.latitude,
        !.longitude = station.longitude,
        !.petrol_price = station.petrol_price,
        !.diesel_price = station.diesel_price,
        !.super_price = station.super_price,
        !.hasLivePricing = Bool(TRUE),
        !.hours24 = matchedSite.hours24,
        !.hgvAccess = matchedSite.hgvAccess,
        !.facilities = SiteFacilities(matchedSite),
        !.isUKFuelsSite = Bool(TRUE),
        !.bands = matchedSite.bands]

\* mergedStation: the live station's properties, overridden from the site
MergedStation(station, matchedSite) ==
    [station EXCEPT
        !.id = Str(<<"m", "a", "t", "c", "h", "e", "d", "-">> \o ToStringJS(matchedSite.siteNo)
                   \o <<"-">> \o ToStringJS(station.id)),
        !.ukFuelsSiteNo = matchedSite.siteNo,
        !.ukFuelsAltSiteNo = matchedSite.altSiteNo,
        !.name = Or(matchedSite.siteName, station.name),
        !.address = Or(matchedSite.street1, station.address),
        !.town = Or(matchedSite.town, station.town),
        !.postcode = Or(matchedSite.postCode, station.postcode),
        !.latitude = matchedSite.latitude,
        !.longitude = matchedSite.longitude,
        !.petrol_price = station.petrol_price,
        !.diesel_price = station.diesel_price,
        !.super_price = station.super_price,
        !.hasLivePricing = Bool(TRUE),
        !.hours24 = matchedSite.hours24,
        !.hgvAccess = matchedSite.hgvAccess,
        !.facilities = SiteFacilities(matchedSite),
        !.isUKFuelsSite = Bool(TRUE),
        !.bands = matchedSite.bands]

\* unmatchedUKSite: the entry synthesized for a site no live station claimed
UnmatchedUKSite(ukSite, averages, time) ==
    [EmptyStation EXCEPT
        !.id = Str(<<"u", "k", "-", "f", "u", "e", "l", "s", "-", "o", "n", "l", "y", "-">>
                   \o ToStringJS(ukSite.siteNo)),
        !.ukFuelsSiteNo = ukSite.siteNo,
        !.ukFuelsAltSiteNo = ukSite.altSiteNo,
        !.brand = ukSite.brand,
        !.name = ukSite.siteName,
        !.address = ukSite.street1,
        !.town = ukSite.town,
        !.postcode = ukSite.postCode,
        !.latitude = ukSite.latitude,
        !.longitude = ukSite.longitude,
        !.petrol_price = Or(averages.petrol, Null),
        !.diesel_price = Or(averages.diesel, Null),
        !.super_price = Null,
        !.hasLivePricing = Bool(FALSE),
        !.hours24 = ukSite.hours24,
        !.hgvAccess = ukSite.hgvAccess,
        !.facilities = SiteFacilities(ukSite),
        !.isUKFuelsSite = Bool(TRUE),
        !.bands = ukSite.bands,
        !.last_updated = ToISOString(time)]

\* faulty variant: a station that found no site is pushed to matched all the same
LiveStep_PromotesUnmatched(acc, station, matchedSite) ==
    IF Truthy(matchedSite)
    THEN [acc EXCEPT !.ids = @ \cup {matchedSite.siteNo},
                     !.matched = Append(@, MergedStation(station, matchedSite))]
    ELSE [acc EXCEPT !.matched = Append(@, [station EXCEPT !.hasLivePricing = Bool(FALSE)]),
                     !.unmatched = Append(@, station)]

\* faulty variant: a station whose site is in matchedUKFuelsSiteIds already
\* is pushed to unmatched
LiveStep_FirstClaimWins(acc, station, matchedSite) ==
    IF Truthy(matchedSite) /\ matchedSite.siteNo \notin acc.ids
    THEN [acc EXCEPT !.ids = @ \cup {matchedSite.siteNo},
                     !.matched = Append(@, MergedStation(station, matchedSite))]
    ELSE [acc EXCEPT !.unmatched = Append(@, station)]

\* faulty variant: the else is lost, every station is pushed to unmatched
LiveStep_AlwaysUnmatched(acc, station, matchedSite) ==
    IF Truthy(matchedSite)
    THEN [acc EXCEPT !.ids = @ \cup {matchedSite.siteNo},
                     !.matched = Append(@, MergedStation(station, matchedSite)),
                     !.unmatched = Append(@, station)]
    ELSE [acc EXCEPT !.unmatched = Append(@, station)]

\* one turn of the first forEach: the station is merged with its site and
\* pushed to matched, or pushed to unmatched; acc carries matched, unmatched
\* and matchedUKFuelsSiteIds
LiveStep(acc, station, matchedSite) ==
    IF Truthy(matchedSite)
    THEN [acc EXCEPT !.ids = @ \cup {matchedSite.siteNo},
                     !.matched = Append(@, MergedStation(station, matchedSite))]
    ELSE [acc EXCEPT !.unmatched = Append(@, station)]

\* the first forEach, from live station i on
RECURSIVE LiveLoop(_, _, _, _)
LiveLoop(live, sites, i, acc) ==
    IF i > Len(live) THEN acc
    ELSE LiveLoop(live, sites, i + 1, LiveStep(acc, live[i], FindSite(live[i], sites)))

\* faulty variant: the capability flags are not tested
SynthesizedIsPushed_NoFlagTest(ukSite, ids) == ukSite.siteNo \notin ids

\* faulty variant: both capability flags are required
SynthesizedIsPushed_BothFlags(ukSite, ids) ==
    /\ ukSite.siteNo \notin ids
    /\ Truthy(ukSite.petrol)
    /\ Truthy(ukSite.diesel)

\* faulty variant: matchedUKFuelsSiteIds is not consulted
SynthesizedIsPushed_IgnoresClaims(ukSite, ids) ==
    Truthy(ukSite.petrol) \/ Truthy(ukSite.diesel)

\* whether the second forEach pushes the entry synthesized for ukSite
SynthesizedIsPushed(ukSite, ids) ==
    /\ ukSite.siteNo \notin ids
    /\ (Truthy(ukSite.petrol) \/ Truthy(ukSite.diesel))

\* the second forEach, from site i on
RECURSIVE SiteLoop(_, _, _, _, _, _)
SiteLoop(sites, averages, time, i, ids, matched) ==
    IF i > Len(sites) THEN matched
    ELSE SiteLoop(sites, averages, time, i + 1, ids,
                  IF SynthesizedIsPushed(sites[i], ids)
                  THEN Append(matched, UnmatchedUKSite(sites[i], averages, time))
                  ELSE matched)

HasLivePricing(s) == s.hasLivePricing = Bool(TRUE)

\* faulty variant: the filter is lost, every entry is counted
LiveCount_CountsAll(matched) == Len(matched)

\* matched.filter(s => s.hasLivePricing === true).length
LiveCount(matched) == Len(SelectSeq(matched, HasLivePricing))

NoResult == [done |-> FALSE, matched |-> <<>>, unmatched |-> <<>>, liveCount |-> 0]

\* return { matched, unmatched, liveCount }
MatchReturn(matched, unmatched) ==
    [done |-> TRUE, matched |-> matched, unmatched |-> unmatched,
     liveCount |-> LiveCount(matched)]

\* the second forEach and the return, after the first forEach left acc
AfterLiveLoop(acc, sites, averages, time) ==
    MatchReturn(SiteLoop(sites, averages, time, 1, acc.ids, acc.matched), acc.unmatched)

\* matchStationsWithUKFuels(liveStations, ukFuelsSites, averagePrices), run
\* when the clock reads `time`
matchStationsWithUKFuels(live, sites, averages, time) ==
    AfterLiveLoop(LiveLoop(live, sites, 1, [ids |-> {}, matched |-> <<>>, unmatched |-> <<>>]),
                  sites, averages, time)

\* faulty variant: a matched station is overwritten with its merged entry
InputsAfterMatch_MergesInPlace(live, sites) ==
    [live |-> [i \in DOMAIN live |->
                  IF Truthy(FindSite(live[i], sites))
                  THEN MergedStation(live[i], FindSite(live[i], sites)) ELSE live[i]],
     sites |-> sites]

\* the two lists passed in, as the call leaves them: the function reads
\* them with forEach and find, builds mergedStation and unmatchedUKSite as
\* new objects, and assigns to no element and to neither list
InputsAfterMatch(live, sites) == [live |-> live, sites |-> sites]

(***************************************************************************)
(* The feed normalizer (parseStationData)                                  *)
(***************************************************************************)
\* a || b || c ... over a sequence of values, ending with the default
RECURSIVE FirstTruthy(_, _)
FirstTruthy(vals, default) ==
    IF vals = <<>> THEN default
    ELSE IF Truthy(Head(vals)) THEN Head(vals)
    ELSE FirstTruthy(Tail(vals), default)

\* isNaN(x) ? 0 : x
ZeroIfNaN(v) == IF v.t = "num" THEN v ELSE Num(0)

\* the coordinate cascade: [lat, lon] before the isNaN guard
RawCoordinates(station) ==
    LET location == Prop(station, "location")
        geo == Prop(station, "geo")
        coords == Prop(station, "coords")
    IN  IF Truthy(location) /\ location.t \in {"obj", "list"}
        THEN [lat |-> parseFloat(FirstTruthy(<<Prop(location, "latitude"), Prop(location, "lat")>>, Num(0))),
              lon |-> parseFloat(FirstTruthy(<<Prop(location, "longitude"), Prop(location, "lng"),
                                               Prop(location, "lon")>>, Num(0)))]
        ELSE IF Truthy(Prop(station, "latitude")) /\ Truthy(Prop(station, "longitude"))
        THEN [lat |-> parseFloat(Prop(station, "latitude")),
              lon |-> parseFloat(Prop(station, "longitude"))]
        ELSE IF /\ Truthy(Prop(station, "lat"))
                /\ Truthy(FirstTruthy(<<Prop(station, "lng"), Prop(station, "lon")>>,
                                      Prop(station, "long")))
        THEN [lat |-> parseFloat(Prop(station, "lat")),
              lon |-> parseFloat(FirstTruthy(<<Prop(station, "lng"), Prop(station, "lon")>>,
                                             Prop(station, "long")))]
        ELSE IF Truthy(geo)
        THEN [lat |-> parseFloat(Or(Prop(geo, "lat"), Num(0))),
              lon |-> parseFloat(FirstTruthy(<<Prop(geo, "lng"), Prop(geo, "lon")>>, Num(0)))]
        ELSE IF Truthy(coords)
        THEN [lat |-> parseFloat(FirstTruthy(<<Prop(coords, "latitude"), Prop(coords, "lat")>>, Num(0))),
              lon |-> parseFloat(FirstTruthy(<<Prop(coords, "longitude"), Prop(coords, "lng")>>, Num(0)))]
        ELSE [lat |-> Num(0), lon |-> Num(0)]

NoPrices == [petrol |-> Null, diesel |-> Null, super |-> Null]

\* if (cond) slot = value
SetIf(p, cond, slot, value) == IF cond THEN [p EXCEPT ![slot] = value] ELSE p

\* faulty variant: SDV sets diesel whatever B7 left there
PricesObjectRule_SDVOverwrites(p, station) ==
    LET prices == Prop(station, "prices")
        a == SetIf(p, TypeofNumber(Prop(prices, "E10")), "petrol", Div100(Prop(prices, "E10")))
        b == SetIf(a, TypeofNumber(Prop(prices, "E5")), "super", Div100(Prop(prices, "E5")))
        c == SetIf(b, TypeofNumber(Prop(prices, "B7")), "diesel", Div100(Prop(prices, "B7")))
        d == SetIf(c, TypeofNumber(Prop(prices, "SDV")), "diesel", Div100(Prop(prices, "SDV")))
        e == SetIf(d, Truthy(Prop(prices, "unleaded")), "petrol", parseFloat(Prop(prices, "unleaded")))
        f == SetIf(e, Truthy(Prop(prices, "diesel")), "diesel", parseFloat(Prop(prices, "diesel")))
        g == SetIf(f, Truthy(Prop(prices, "super_unleaded")), "super",
                   parseFloat(Prop(prices, "super_unleaded")))
    IN  IF Truthy(prices) THEN g ELSE p

\* rules 1 and 2: the record's `prices` object
PricesObjectRule(p, station) ==
    LET prices == Prop(station, "prices")
        a == SetIf(p, TypeofNumber(Prop(prices, "E10")), "petrol", Div100(Prop(prices, "E10")))
        b == SetIf(a, TypeofNumber(Prop(prices, "E5")), "super", Div100(Prop(prices, "E5")))
        c == SetIf(b, TypeofNumber(Prop(prices, "B7")), "diesel", Div100(Prop(prices, "B7")))
        d == SetIf(c, TypeofNumber(Prop(prices, "SDV")) /\ ~Truthy(c.diesel),
                   "diesel", Div100(Prop(prices, "SDV")))
        e == SetIf(d, Truthy(Prop(prices, "unleaded")), "petrol", parseFloat(Prop(prices, "unleaded")))
        f == SetIf(e, Truthy(Prop(prices, "diesel")), "diesel", parseFloat(Prop(prices, "diesel")))
        g == SetIf(f, Truthy(Prop(prices, "super_unleaded")), "super",
                   parseFloat(Prop(prices, "super_unleaded")))
    IN  IF Truthy(prices) THEN g ELSE p

S_ULDS == Str(<<"U", "L", "D", "S">>)
S_Unleaded == Str(<<"U", "n", "l", "e", "a", "d", "e", "d">>)
S_ULSD == Str(<<"U", "L", "S", "D">>)
S_Diesel == Str(<<"D", "i", "e", "s", "e", "l">>)
S_SUL == Str(<<"S", "U", "L">>)
S_SuperUnleaded == Str(<<"S", "u", "p", "e", "r", " ", "U", "n", "l", "e", "a", "d", "e", "d">>)

\* rule 3: the forEach over fuel_type_services, from entry i on
RECURSIVE FuelTypeServicesLoop(_, _, _)
FuelTypeServicesLoop(p, services, i) ==
    IF i > Len(services) THEN p
    ELSE LET fuel == services[i]
             type == Prop(fuel, "fuel_type")
             price == Div100(parseFloat(Prop(fuel, "price")))
         IN  FuelTypeServicesLoop(
                 IF type \in {S_ULDS, S_Unleaded} THEN [p EXCEPT !.petrol = price]
                 ELSE IF type \in {S_ULSD, S_Diesel} THEN [p EXCEPT !.diesel = price]
                 ELSE IF type \in {S_SUL, S_SuperUnleaded} THEN [p EXCEPT !.super = price]
                 ELSE p,
                 services, i + 1)

FuelTypeServicesRule(p, station) ==
    LET services == Prop(station, "fuel_type_services")
    IN  IF Truthy(services) THEN FuelTypeServicesLoop(p, services.l, 1) ELSE p

\* rule 4: the record's `fuelPrices` object
FuelPricesRule(p, station) ==
    LET fuelPrices == Prop(station, "fuelPrices")
        a == SetIf(p, Truthy(Prop(fuelPrices, "E10")), "petrol",
                   Div100(parseFloat(Prop(fuelPrices, "E10"))))
        b == SetIf(a, Truthy(Prop(fuelPrices, "B7")), "diesel",
                   Div100(parseFloat(Prop(fuelPrices, "B7"))))
        c == SetIf(b, Truthy(Prop(fuelPrices, "E5")), "super",
                   Div100(parseFloat(Prop(fuelPrices, "E5"))))
    IN  IF Truthy(fuelPrices) THEN c ELSE p

\* faulty variant: the flat fallback cascade is entered when petrol or
\* diesel is falsy
FlatFallbackRule_EitherUnset(p, station) ==
    LET fuel_prices == Prop(station, "fuel_prices")
        a == SetIf(p, Truthy(Prop(station, "unleaded")), "petrol",
                   Div100(parseFloat(Prop(station, "unleaded"))))
        b == SetIf(a, Truthy(Prop(station, "diesel")), "diesel",
                   Div100(parseFloat(Prop(station, "diesel"))))
        c == SetIf(b, Truthy(Prop(station, "super_unleaded")), "super",
                   Div100(parseFloat(Prop(station, "super_unleaded"))))
        d == SetIf(c, Truthy(Prop(station, "unleaded_price")), "petrol",
                   parseFloat(Prop(station, "unleaded_price")))
        e == SetIf(d, Truthy(Prop(station, "diesel_price")), "diesel",
                   parseFloat(Prop(station, "diesel_price")))
        f == SetIf(e, Truthy(Prop(station, "super_unleaded_price")), "super",
                   parseFloat(Prop(station, "super_unleaded_price")))
        g == SetIf(f, Truthy(Prop(station, "petrol")), "petrol",
                   parseFloat(Prop(station, "petrol")))
        h == SetIf(g, Truthy(Prop(station, "petrol_price")), "petrol",
                   parseFloat(Prop(station, "petrol_price")))
        i == SetIf(h, Truthy(Prop(fuel_prices, "unleaded")), "petrol",
                   parseFloat(Prop(fuel_prices, "unleaded")))
        j == SetIf(i, Truthy(Prop(fuel_prices, "diesel")), "diesel",
                   parseFloat(Prop(fuel_prices, "diesel")))
    IN  IF ~Truthy(p.petrol) \/ ~Truthy(p.diesel) THEN j ELSE p

\* rule 5: the flat fallback cascade, entered when petrol and diesel are both falsy
FlatFallbackRule(p, station) ==
    LET fuel_prices == Prop(station, "fuel_prices")
        a == SetIf(p, Truthy(Prop(station, "unleaded")), "petrol",
                   Div100(parseFloat(Prop(station, "unleaded"))))
        b == SetIf(a, Truthy(Prop(station, "diesel")), "diesel",
                   Div100(parseFloat(Prop(station, "diesel"))))
        c == SetIf(b, Truthy(Prop(station, "super_unleaded")), "super",
                   Div100(parseFloat(Prop(station, "super_unleaded"))))
        d == SetIf(c, Truthy(Prop(station, "unleaded_price")), "petrol",
                   parseFloat(Prop(station, "unleaded_price")))
        e == SetIf(d, Truthy(Prop(station, "diesel_price")), "diesel",
                   parseFloat(Prop(station, "diesel_price")))
        f == SetIf(e, Truthy(Prop(station, "super_unleaded_price")), "super",
                   parseFloat(Prop(station, "super_unleaded_price")))
        g == SetIf(f, Truthy(Prop(station, "petrol")), "petrol",
                   parseFloat(Prop(station, "petrol")))
        h == SetIf(g, Truthy(Prop(station, "petrol_price")), "petrol",
                   parseFloat(Prop(station, "petrol_price")))
        i == SetIf(h, Truthy(Prop(fuel_prices, "unleaded")), "petrol",
                   parseFloat(Prop(fuel_prices, "unleaded")))
        j == SetIf(i, Truthy(Prop(fuel_prices, "diesel")), "diesel",
                   parseFloat(Prop(fuel_prices, "diesel")))
    IN  IF ~Truthy(p.petrol) /\ ~Truthy(p.diesel) THEN j ELSE p

\* rule 6: a slot still holding a string becomes parseFloat(slot) || null
StringSlot(v) == IF v.t = "str" THEN Or(parseFloat(v), Null) ELSE v

StringSlotsRule(p) ==
    [petrol |-> StringSlot(p.petrol), diesel |-> StringSlot(p.diesel),
     super |-> StringSlot(p.super)]

\* the three price slots of a record after the whole cascade
ExtractPrices(station) ==
    StringSlotsRule(
        FlatFallbackRule(
            FuelPricesRule(
                FuelTypeServicesRule(
                    PricesObjectRule(NoPrices, station), station), station), station))

S_Closed == Str(<<"c", "l", "o", "s", "e", "d">>)

\* the identifier source: the first truthy of the five id properties, else the index
StationIdSource(station, index) ==
    FirstTruthy(<<Prop(station, "id"), Prop(station, "site_id"), Prop(station, "store_id"),
                  Prop(station, "location_id"), Prop(station, "number")>>, Num(index * Unit))

\* parsedStation, given the coordinates c and the price slots p extracted
BuildStation(station, retailerName, index, time, c, p) ==
    [EmptyStation EXCEPT
        !.id = Str(retailerName.s \o <<"-">> \o ToStringJS(StationIdSource(station, index))),
        !.brand = FirstTruthy(<<Prop(station, "brand"), Prop(station, "brand_name")>>,
                              retailerName),
        !.name = FirstTruthy(<<Prop(station, "name"), Prop(station, "site_name"),
                               Prop(station, "store_name"), Prop(station, "trading_name"),
                               Prop(station, "location_name")>>,
                             Str(retailerName.s \o <<" ", "S", "t", "a", "t", "i", "o", "n">>)),
        !.address = FirstTruthy(<<Prop(station, "address"), Prop(station, "street"),
                                  Prop(station, "street_address"),
                                  Prop(station, "address_line_1")>>, Str(<<>>)),
        !.postcode = FirstTruthy(<<Prop(station, "postcode"), Prop(station, "post_code"),
                                   Prop(station, "postal_code"), Prop(station, "zip")>>,
                                 Str(<<>>)),
        !.town = FirstTruthy(<<Prop(station, "town"), Prop(station, "city"),
                               Prop(station, "locality")>>, Str(<<>>)),
        !.latitude = ZeroIfNaN(c.lat),
        !.longitude = ZeroIfNaN(c.lon),
        !.petrol_price = p.petrol,
        !.diesel_price = p.diesel,
        !.super_price = p.super,
        !.last_updated = FirstTruthy(<<Prop(station, "last_updated"),
                                       Prop(station, "updated_at")>>, ToISOString(time)),
        !.is_open = Bool(Prop(station, "is_open") # Bool(FALSE)
                         /\ Prop(station, "status") # S_Closed),
        !.facilities = FirstTruthy(<<Prop(station, "facilities"), Prop(station, "amenities"),
                                     Prop(station, "services")>>, List(<<>>))]

\* parsedStation for the record at position index (from 0) of the list
ParsedStation(station, retailerName, index, time) ==
    BuildStation(station, retailerName, index, time,
                 RawCoordinates(station), ExtractPrices(station))

\* whether extracting the record throws (caught per record, the record skipped):
\* a null or undefined record, a truthy fuel_type_services without forEach,
\* or a null or undefined entry in it
RecordThrows(station) ==
    LET services == Prop(station, "fuel_type_services")
    IN  \/ station.t \in {"null", "undef"}
        \/ /\ Truthy(services)
           /\ \/ services.t # "list"
              \/ \E i \in DOMAIN services.l : services.l[i].t \in {"null", "undef"}

\* the retention test before stations.push(parsedStation)
IsRetained(parsedStation) ==
    \/ Truthy(parsedStation.petrol_price)
    \/ Truthy(parsedStation.diesel_price)
    \/ Truthy(parsedStation.super_price)

\* faulty variant: a record whose extraction throws ends up outside the
\* per-record try block and empties the batch
StationStep_DropsBatch(stations, station, retailerName, index, time) ==
    IF RecordThrows(station) THEN <<>>
    ELSE IF IsRetained(ParsedStation(station, retailerName, index, time))
    THEN Append(stations, ParsedStation(station, retailerName, index, time))
    ELSE stations

\* faulty variant: the retention test is lost, every extracted record is pushed
PushIfRetained_Always(stations, parsedStation) == Append(stations, parsedStation)

\* if (petrol_price || diesel_price || super_price) stations.push(parsedStation)
PushIfRetained(stations, parsedStation) ==
    IF IsRetained(parsedStation) THEN Append(stations, parsedStation) ELSE stations

\* one turn of the forEach: a record whose extraction throws is skipped
StationStep(stations, station, retailerName, index, time) ==
    IF RecordThrows(station) THEN stations
    ELSE PushIfRetained(stations, ParsedStation(station, retailerName, index, time))

\* stationArray.forEach((station, index) => ...), from position i (from 1) on
RECURSIVE StationLoop(_, _, _, _, _)
StationLoop(stationArray, retailerName, time, i, stations) ==
    IF i > Len(stationArray) THEN stations
    ELSE StationLoop(stationArray, retailerName, time, i + 1,
                     StationStep(stations, stationArray[i], retailerName, i - 1, time))

\* faulty variant: data is probed before stations
KnownListKeys_DataFirst ==
    <<"data", "stations", "results", "fuel_prices", "items", "sites", "locations",
      "stores", "forecourts">>

KnownListKeys ==
    <<"stations", "data", "results", "fuel_prices", "items", "sites", "locations",
      "stores", "forecourts">>

\* for (const key in data): the first property holding a non-empty list; an
\* object carries its own property names, in enumeration order, in `keys`
RECURSIVE FirstListProperty(_, _)
FirstListProperty(data, keys) ==
    IF keys = <<>> THEN List(<<>>)
    ELSE LET v == Prop(data, Head(keys))
         IN  IF v.t = "list" /\ Len(v.l) > 0 THEN v
             ELSE FirstListProperty(data, Tail(keys))

\* record-list discovery: stationArray
RECURSIVE FirstKnownKey(_, _)
FirstKnownKey(data, keys) ==
    IF keys = <<>>
    THEN IF data.t = "list" THEN data
         ELSE FirstListProperty(data, IF data.t = "obj" THEN data.keys ELSE <<>>)
    ELSE IF Truthy(Prop(data, Head(keys))) THEN Prop(data, Head(keys))
    ELSE FirstKnownKey(data, Tail(keys))

StationArray(data) == FirstKnownKey(data, KnownListKeys)

\* whether the outer try block throws before any record is read: data is null
\* or undefined, or the value found has no forEach
DiscoveryThrows(data) ==
    \/ data.t \in {"null", "undef"}
    \/ StationArray(data).t # "list"

\* faulty variant: the outer try block has no catch
OuterCatch_Rethrows(threw) == threw

\* } catch (error) { console.error(...) }: what the outer try block throws
\* is logged, and the function goes on to return stations
OuterCatch(threw) == FALSE

\* whether parseStationData(data, retailerName) throws to its caller
parseStationDataThrows(data) == OuterCatch(DiscoveryThrows(data))

\* parseStationData(data, retailerName), run when the clock reads `time`
parseStationData(data, retailerName, time) ==
    IF DiscoveryThrows(data) THEN <<>>
    ELSE StationLoop(StationArray(data).l, retailerName, time, 1, <<>>)

(***************************************************************************)
(* The pricing policy (FUELQ_WEEKLY_PRICES, StationCard, renderStationItem, *)
(* the map callout)                                                        *)
(***************************************************************************)
\* nothing rendered yet
NoCard ==
    [rendered |-> FALSE, threw |-> FALSE, view |-> "none", diesel |-> Null, petrol |-> Null,
     label |-> Null]

\* pence with one decimal, as a number
Pence(whole, tenths) == Num(whole * Unit + tenths * (Unit \div 10))

FUELQ_WEEKLY_PRICES ==
    [diesel |-> Pence(130, 6),
     dieselSupermarket |-> Pence(133, 6),
     petrolDiscount |-> Pence(3, 0),
     petrolDiscountSupermarket |-> Pence(1, 0)]

supermarkets ==
    <<<<"A", "S", "D", "A">>, <<"T", "E", "S", "C", "O">>,
      <<"S", "A", "I", "N", "S", "B", "U", "R", "Y", "S">>,
      <<"M", "O", "R", "R", "I", "S", "O", "N", "S">>,
      <<"S", "A", "I", "N", "S", "B", "U", "R", "Y", "'", "S">>,
      <<"M", "O", "R", "R", "I", "S", "O", "N", "'", "S">>>>

\* brand?.toUpperCase() throws for a brand that is neither null nor undefined
\* and has no toUpperCase: a number, a boolean, an object, a list
isSupermarketBrandThrows(brand) == brand.t \notin {"null", "undef", "str"}

\* the render that threw computed nothing
Thrown(view) == [NoCard EXCEPT !.view = view, !.threw = TRUE]

\* supermarkets.includes(brand?.toUpperCase()), where it does not throw
isSupermarketBrand(brand) ==
    /\ brand.t = "str"
    /\ \E i \in DOMAIN supermarkets : supermarkets[i] = ToUpperCase(brand.s)

\* faulty variant: the two diesel prices change places
dieselFuelQPrice_Swapped(isSupermarket) ==
    IF isSupermarket THEN policy.diesel ELSE policy.dieselSupermarket

dieselFuelQPrice(isSupermarket) ==
    IF isSupermarket THEN policy.dieselSupermarket ELSE policy.diesel

petrolDiscount(isSupermarket) ==
    IF isSupermarket THEN policy.petrolDiscountSupermarket ELSE policy.petrolDiscount

\* station.petrol_price ? parseFloat(station.petrol_price) * 100 : null
pumpPetrolPPL(station) ==
    IF Truthy(station.petrol_price) THEN Mul100(parseFloat(station.petrol_price)) ELSE Null

\* a - b on numbers (NaN when either is not a number)
Minus(a, b) == IF a.t = "num" /\ b.t = "num" THEN Num(a.n - b.n) ELSE NaN

\* faulty variant: the discount is added to the pump price
fuelqPetrolPPL_AddsDiscount(pump, discount) ==
    IF Truthy(pump) THEN Num(pump.n + discount.n) ELSE Null

\* pumpPetrolPPL ? pumpPetrolPPL - petrolDiscount : null
fuelqPetrolPPL(pump, discount) == IF Truthy(pump) THEN Minus(pump, discount) ELSE Null

\* what StationCard and renderStationItem compute for a station
MemberPrices(view, station, isSupermarket) ==
    [rendered |-> TRUE,
     threw |-> FALSE,
     view |-> view,
     diesel |-> dieselFuelQPrice(isSupermarket),
     petrol |-> fuelqPetrolPPL(pumpPetrolPPL(station), petrolDiscount(isSupermarket)),
     label |-> Null]

StationCard(station) ==
    IF isSupermarketBrandThrows(station.brand) THEN Thrown("card")
    ELSE MemberPrices("card", station, isSupermarketBrand(station.brand))

\* the list item of the map screen: nothing for a station that is no UK Fuels site
renderStationItem(item) ==
    IF ~Truthy(item.isUKFuelsSite) THEN [NoCard EXCEPT !.view = "item"]
    ELSE IF isSupermarketBrandThrows(item.brand) THEN Thrown("item")
    ELSE MemberPrices("item", item, isSupermarketBrand(item.brand))

\* x.toFixed(1): the nearest tenth, the larger on a tie, with one decimal
ToFixed1Digits(tenths) == NatToString(tenths \div 10) \o <<".">> \o NatToString(tenths % 10)

ToFixed1(v) ==
    IF v.t # "num" THEN <<"N", "a", "N">>
    ELSE (IF v.n < 0 THEN <<"-">> ELSE <<>>)
         \o ToFixed1Digits((Abs(v.n) + (Unit \div 20)) \div (Unit \div 10))

\* the FuelQ line of the map callout: shown for a UK Fuels site with a truthy
\* petrol property, as a price when the station has a petrol price
CalloutLabel(station, isSupermarket) ==
    IF Truthy(station.isUKFuelsSite) /\ Truthy(Prop(station, "petrol"))
    THEN IF Truthy(station.petrol_price)
         THEN Str(ToFixed1(Minus(Mul100(parseFloat(station.petrol_price)),
                                 petrolDiscount(isSupermarket))) \o <<"p">>)
         ELSE Str((IF isSupermarket THEN <<"1", "p">> ELSE <<"3", "p">>)
                  \o <<" ", "o", "f", "f", " ", "p", "u", "m", "p">>)
    ELSE Null

Callout(station) ==
    IF Truthy(station.isUKFuelsSite) /\ Truthy(Prop(station, "petrol"))
       /\ isSupermarketBrandThrows(station.brand)
    THEN Thrown("callout")
    ELSE [NoCard EXCEPT !.rendered = TRUE, !.view = "callout",
                        !.label = CalloutLabel(station, isSupermarketBrand(station.brand))]

(***************************************************************************)
(* The filter effect and sortStationsByDistance                            *)
(***************************************************************************)
\* useState(true); setShowOnlyMatched is never called
showOnlyMatched == TRUE

\* useState({latitude: 51.5105, longitude: -0.5950}); setUserLocation is
\* never called
userLocation == [latitude |-> Num(5151050), longitude |-> Num(-59500)]

\* calculateDistance from userLocation, in km: the haversine formula's value
\* at the coordinates the stations and sites below have, to five decimals
HaversineKm ==
    [c \in {<<5145000, -97000>>, <<5145010, -97000>>, <<0, 0>>, <<5151500, -59000>>,
            <<5150000, -10000>>, <<5151000, -59000>>}
       |-> CASE c = <<5145000, -97000>> -> 2682610
             [] c = <<5145010, -97000>> -> 2682329
             [] c = <<0, 0>> -> 572797942
             [] c = <<5151500, -59000>> -> 60836
             [] c = <<5150000, -10000>> -> 3428001
             [] c = <<5151000, -59000>> -> 35046]

calculateDistance(lat1, lon1, lat2, lon2) ==
    IF <<lat1, lon1>> = <<userLocation.latitude, userLocation.longitude>>
       /\ lat2.t = "num" /\ lon2.t = "num"
    THEN Num(HaversineKm[<<lat2.n, lon2.n>>])
    ELSE NaN

\* faulty variant: the station keeps the distance 0
WithDistance_Zero(station) ==
    [f \in DOMAIN station \cup {"distance"} |->
        IF f = "distance" THEN Num(0) ELSE station[f]]

\* {...station, distance: calculateDistance(...)}
WithDistance(station) ==
    [f \in DOMAIN station \cup {"distance"} |->
        IF f = "distance"
        THEN calculateDistance(userLocation.latitude, userLocation.longitude,
                               station.latitude, station.longitude)
        ELSE station[f]]

\* the comparator (a, b) => a.distance - b.distance says a goes after b
GoesAfter(a, b) == a.distance.t = "num" /\ b.distance.t = "num" /\ a.distance.n > b.distance.n

\* x put into the sorted list behind every element it does not go before
RECURSIVE InsertSorted(_, _)
InsertSorted(sorted, x) ==
    IF sorted = <<>> THEN <<x>>
    ELSE IF GoesAfter(Head(sorted), x) THEN <<x>> \o sorted
    ELSE <<Head(sorted)>> \o InsertSorted(Tail(sorted), x)

\* Array.prototype.sort (stable) with that comparator, from element i on
RECURSIVE SortFrom(_, _, _)
SortFrom(stations, i, sorted) ==
    IF i > Len(stations) THEN sorted
    ELSE SortFrom(stations, i + 1, InsertSorted(sorted, stations[i]))

sortStationsByDistance(stations) ==
    SortFrom([i \in DOMAIN stations |-> WithDistance(stations[i])], 1, <<>>)

SearchedFields == <<"name", "brand", "address", "postcode", "town">>

\* faulty variant: the site number is not searched
SiteNoMatches_Never(station, query) == "no"

\* station.ukFuelsSiteNo && station.ukFuelsSiteNo.toString().includes(query)
SiteNoMatches(station, query) ==
    IF Truthy(station.ukFuelsSiteNo) /\ Includes(ToStringJS(station.ukFuelsSiteNo), query)
    THEN "yes" ELSE "no"

\* the filter predicate from field i of SearchedFields on: "yes", "no", or
\* "throws" when a field that is neither null nor undefined has no toLowerCase
RECURSIVE StationMatches(_, _, _)
StationMatches(station, query, i) ==
    IF i > Len(SearchedFields) THEN SiteNoMatches(station, query)
    ELSE IF station[SearchedFields[i]].t \in {"null", "undef"}
    THEN StationMatches(station, query, i + 1)
    ELSE IF station[SearchedFields[i]].t # "str" THEN "throws"
    ELSE IF Includes(ToLowerCase(station[SearchedFields[i]].s), query) THEN "yes"
    ELSE StationMatches(station, query, i + 1)

NoFilter == [threw |-> FALSE, stations |-> <<>>]

\* one turn of stationsToFilter.filter(...)
FilterStep(acc, station, verdict) ==
    IF acc.threw \/ verdict = "throws" THEN [acc EXCEPT !.threw = TRUE]
    ELSE IF verdict = "yes" THEN [acc EXCEPT !.stations = Append(@, station)]
    ELSE acc

RECURSIVE FilterFrom(_, _, _, _)
FilterFrom(stations, query, i, acc) ==
    IF i > Len(stations) THEN acc
    ELSE FilterFrom(stations, query, i + 1,
                    FilterStep(acc, stations[i], StationMatches(stations[i], query, 1)))

\* filtered: the whole list for an empty query
Filtered(stationsToFilter, query) ==
    IF query = <<>> THEN [threw |-> FALSE, stations |-> stationsToFilter]
    ELSE FilterFrom(stationsToFilter, ToLowerCase(query), 1, NoFilter)

\* what the effect sets displayedStations to, given the list filtered; an
\* effect that throws sets nothing
DisplayedAfter(stationsToFilter, filtered, displayed) ==
    IF Len(stationsToFilter) > 0
    THEN IF filtered.threw THEN displayed ELSE sortStationsByDistance(filtered.stations)
    ELSE <<>>

\* the effect on [searchQuery, allStations, matchedStations, showOnlyMatched,
\* userLocation]
FilterEffect(stationsToFilter, query, displayed) ==
    DisplayedAfter(stationsToFilter, Filtered(stationsToFilter, query), displayed)

(***************************************************************************)
(* The pipeline pass (fetchFuelPrices)                                     *)
(***************************************************************************)
DemoCount == 20

\* Math.floor(Math.random() * n) for station i: the model takes the outcome
\* (seed + i) % n of each draw
RandomIndex(seed, i, n) == (seed + i) % n

DemoRetailers ==
    <<<<"A", "S", "D", "A">>, <<"T", "e", "s", "c", "o">>,
      <<"S", "a", "i", "n", "s", "b", "u", "r", "y", "s">>,
      <<"M", "o", "r", "r", "i", "s", "o", "n", "s">>, <<"S", "h", "e", "l", "l">>,
      <<"B", "P">>, <<"E", "s", "s", "o">>>>

DemoTowns ==
    <<<<"L", "o", "n", "d", "o", "n">>, <<"M", "a", "n", "c", "h", "e", "s", "t", "e", "r">>,
      <<"B", "i", "r", "m", "i", "n", "g", "h", "a", "m">>, <<"L", "e", "e", "d", "s">>,
      <<"G", "l", "a", "s", "g", "o", "w">>>>

\* (Math.random() - 0.5) * 0.1, in units: one of -0.05, 0, 0.04
DemoPriceOffset(seed, i) == <<-5000, 0, 4000>>[RandomIndex(seed, i, 3) + 1]

\* (Math.random() - 0.5) * 0.5, in units: one of -0.25, 0, 0.24
DemoPlaceOffset(seed, i) == <<-25000, 0, 24000>>[RandomIndex(seed, i, 3) + 1]

\* x.toFixed(3) for x = units / Unit, units >= 0
Fixed3Digits(thousandths) ==
    NatToString(thousandths \div 1000) \o <<".">>
       \o <<Digits[((thousandths \div 100) % 10) + 1], Digits[((thousandths \div 10) % 10) + 1],
            Digits[(thousandths % 10) + 1]>>

\* station i of generateDemoStations(), created when the clock reads `time`
DemoStation(seed, i, time) ==
    [EmptyStation EXCEPT
        !.id = Str(<<"d", "e", "m", "o", "-">> \o NatToString(i)),
        !.brand = Str(DemoRetailers[RandomIndex(seed, i, 7) + 1]),
        !.name = Str(DemoRetailers[RandomIndex(seed, i, 7) + 1] \o <<" ">>
                     \o <<<<"S", "t", "a", "t", "i", "o", "n">>, <<"E", "x", "p", "r", "e", "s", "s">>,
                          <<"F", "u", "e", "l">>, <<"P", "e", "t", "r", "o", "l">>>>[RandomIndex(seed, i, 4) + 1]),
        !.address = Str(NatToString(RandomIndex(seed, i, 999) + 1) \o <<" ">>
                        \o <<<<"H", "i", "g", "h", " ", "S", "t", "r", "e", "e", "t">>,
                             <<"M", "a", "i", "n", " ", "R", "o", "a", "d">>,
                             <<"L", "o", "n", "d", "o", "n", " ", "R", "o", "a", "d">>>>[RandomIndex(seed, i, 3) + 1]),
        !.postcode = Str(<<"S", "W">> \o NatToString(RandomIndex(seed, i, 20) + 1) \o <<" ">>
                         \o NatToString(RandomIndex(seed, i, 9)) \o <<"A", "B">>),
        !.town = Str(DemoTowns[RandomIndex(seed, i, 5) + 1]),
        !.latitude = Num(5150740 + DemoPlaceOffset(seed, i)),
        !.longitude = Num(-12780 + DemoPlaceOffset(seed, i)),
        !.petrol_price = Str(Fixed3Digits((145200 + DemoPriceOffset(seed, i)) \div 100)),
        !.diesel_price = Str(Fixed3Digits((153200 + DemoPriceOffset(seed, i)) \div 100)),
        !.super_price = Str(Fixed3Digits((158200 + DemoPriceOffset(seed, i)) \div 100)),
        !.last_updated = ToISOString(time),
        !.is_open = Bool(TRUE),
        !.isUKFuelsSite = Bool(TRUE),
        !.hasLivePricing = Bool(TRUE),
        !.facilities = List(<<Str(<<"2", "4", " ", "H", "o", "u", "r", "s">>),
                             Str(<<"C", "a", "r", " ", "W", "a", "s", "h">>),
                             Str(<<"S", "h", "o", "p">>)>>)]

generateDemoStations(seed, time) == [k \in 1 .. DemoCount |-> DemoStation(seed, k - 1, time)]

S_summary == <<"_", "s", "u", "m", "m", "a", "r", "y">>

NoFeeds == [threw |-> FALSE, stations |-> <<>>, successfulFeeds |-> 0]

\* one turn of Object.entries(allData).forEach(([retailerName, result]) => ...):
\* reading result.success of a null result throws, and ends the forEach
FeedStep(acc, entry, time) ==
    IF acc.threw \/ entry.name = S_summary THEN acc
    ELSE IF entry.result.t \in {"null", "undef"} THEN [acc EXCEPT !.threw = TRUE]
    ELSE IF Truthy(Prop(entry.result, "success")) /\ Truthy(Prop(entry.result, "data"))
    THEN [acc EXCEPT
            !.stations = @ \o parseStationData(Prop(entry.result, "data"), Str(entry.name), time),
            !.successfulFeeds = @ + 1]
    ELSE acc

RECURSIVE FeedLoop(_, _, _, _)
FeedLoop(entries, i, acc, time) ==
    IF i > Len(entries) THEN acc
    ELSE FeedLoop(entries, i + 1, FeedStep(acc, entries[i], time), time)

\* } catch (error) { allFetchedStations.push(...generateDemoStations()) }
WithDemoStations(acc, seed, time) ==
    [acc EXCEPT !.threw = FALSE, !.stations = @ \o generateDemoStations(seed, time)]

\* the inner try block and its catch: allFetchedStations and successfulFeeds
\* for the answer of the worker.  A rejected fetch, a non-OK status, a body
\* that is not JSON and a null body throw before the forEach.
CollectStations(response, seed, time) ==
    IF response.kind = "rejected" \/ ~response.ok \/ response.body.t \in {"unparsable", "null"}
    THEN WithDemoStations(NoFeeds, seed, time)
    ELSE IF FeedLoop(response.body.entries, 1, NoFeeds, time).threw
    THEN WithDemoStations(FeedLoop(response.body.entries, 1, NoFeeds, time), seed, time)
    ELSE FeedLoop(response.body.entries, 1, NoFeeds, time)

\* the sum of parseFloat(s[slot]) over the stations with a truthy slot, from
\* station i on
RECURSIVE SumOfPrices(_, _, _)
SumOfPrices(stations, slot, i) ==
    IF i > Len(stations) THEN 0
    ELSE (IF Truthy(stations[i][slot]) THEN parseFloat(stations[i][slot]).n ELSE 0)
         + SumOfPrices(stations, slot, i + 1)

CountOfPrices(stations, slot) ==
    Cardinality({i \in DOMAIN stations : Truthy(stations[i][slot])})

\* (sum / count).toFixed(3): the nearest thousandth, the larger of two
MeanToFixed3(sum, count) ==
    (IF sum < 0 THEN <<"-">> ELSE <<>>)
       \o Fixed3Digits((2 * Abs(sum) + 100 * count) \div (200 * count))

\* prices.length > 0 ? (mean).toFixed(3) : default
AveragePrice(stations, slot, default) ==
    IF CountOfPrices(stations, slot) = 0 THEN Str(default)
    ELSE IF \E i \in DOMAIN stations :
              Truthy(stations[i][slot]) /\ parseFloat(stations[i][slot]).t # "num"
    THEN Str(<<"N", "a", "N">>)
    ELSE Str(MeanToFixed3(SumOfPrices(stations, slot, 1), CountOfPrices(stations, slot)))

\* the averagePrices argument of the matching call
AveragesOf(stations) ==
    [petrol |-> AveragePrice(stations, "petrol_price", <<"1", ".", "4", "5", "2">>),
     diesel |-> AveragePrice(stations, "diesel_price", <<"1", ".", "5", "3", "4">>)]

\* petrolAverage and dieselAverage of processedData
ProcessedAverages(stationsForAverage) ==
    [petrolAverage |-> AveragesOf(stationsForAverage).petrol,
     dieselAverage |-> AveragesOf(stationsForAverage).diesel]

\* let ukSites = ukFuelsSites; if (ukSites.length === 0) ukSites = await
\* loadUKFuelsSites(): the list the pass matches against and the state after
DirectoryForPass(stored, response) ==
    IF Len(stored) = 0
    THEN [requested |-> TRUE, ukSites |-> loadUKFuelsSites(response, stored).sites,
          stored |-> loadUKFuelsSites(response, stored).stored]
    ELSE [requested |-> FALSE, ukSites |-> stored, stored |-> stored]

(***************************************************************************)
(* Inputs: raw feed records, raw directory sites, averages                 *)
(***************************************************************************)
MaxLive == 2      \* live stations in one matching run
MaxSites == 2     \* directory sites in one matching run
MaxDelay == 1     \* clock ticks between a run and its re-run
MaxRecords == 2   \* records in one feed payload

Chars_SW1A1AA == <<"S", "W", "1", "A", " ", "1", "A", "A">>
Chars_sw1a1aa == <<"s", "w", "1", "a", "1", "a", "a">>
Chars_London == <<"L", "o", "n", "d", "o", "n">>
Chars_Slough == <<"S", "l", "o", "u", "g", "h">>
Chars_Reading == <<"R", "e", "a", "d", "i", "n", "g">>
Chars_Leeds == <<"L", "e", "e", "d", "s">>
Chars_Tesco == <<"T", "e", "s", "c", "o">>
Chars_BP == <<"B", "P">>
Chars_Shell == <<"S", "h", "e", "l", "l">>
Chars_Esso == <<"E", "s", "s", "o">>
Chars_Jet == <<"J", "e", "t">>

\* the raw directory payload's sites (data.data of the directory response)
RawSitePool ==
    {[t |-> "obj", siteNo |-> Num(42 * Unit), altSiteNo |-> Num(420 * Unit),
      lat |-> Num(5150000), lng |-> Num(-10000),
      name |-> Str(<<"T", "e", "s", "c", "o", " ", "E", "x", "t", "r", "a", " ">>),
      addr |-> Str(<<"1", " ", "H", "i", "g", "h", " ", "S", "t">>),
      town |-> Str(Chars_London), postcode |-> Str(Chars_SW1A1AA), brand |-> Str(Chars_Tesco),
      h24 |-> Bool(TRUE), petrol |-> Bool(TRUE), diesel |-> Bool(TRUE),
      bands |-> Str(<<"B">>)],
     [t |-> "obj", siteNo |-> Num(7 * Unit),
      latitude |-> Str(<<"5", "1", ".", "5", "1">>), longitude |-> Str(<<"-", "0", ".", "5", "9">>),
      siteName |-> Str(<<"B", "P", " ", "S", "l", "o", "u", "g", "h">>),
      town |-> Str(Chars_Slough), postCode |-> Str(<<" ", "s", "w", "1", "a", " ", "1", "a", "a">>),
      brand |-> Str(Chars_BP), petrol |-> Bool(TRUE), diesel |-> Bool(FALSE)],
     [t |-> "obj", siteNo |-> Num(9 * Unit), lat |-> Num(5145000), lng |-> Num(-97000),
      town |-> Str(Chars_Reading), postcode |-> Str(<<"R", "G", "1", " ", "2", "A", "B">>),
      brand |-> Str(Chars_Shell), hgv |-> Bool(TRUE)],
     [t |-> "obj", siteNo |-> Num(11 * Unit), town |-> Str(Chars_Leeds),
      brand |-> Str(Chars_Esso), diesel |-> Bool(TRUE), petrol |-> Bool(FALSE)]}

\* the directory sites as loadUKFuelsSites hands them on
SitePool == {ConvertSite(FullRawSite(site)) : site \in RawSitePool}

\* the raw feed records the live stations come from, each with its retailer
LiveRecordPool ==
    {[retailer |-> Str(Chars_Tesco),
      rec |-> [t |-> "obj", id |-> Num(1 * Unit), postcode |-> Str(Chars_sw1a1aa),
               town |-> Str(Chars_London),
               location |-> [t |-> "obj", latitude |-> Num(5145000), longitude |-> Num(-97000)],
               prices |-> [t |-> "obj", E10 |-> Num(14590000), B7 |-> Num(15340000)]]],
     [retailer |-> Str(Chars_Shell),
      rec |-> [t |-> "obj", id |-> Num(2 * Unit), lat |-> Num(5145010), lng |-> Num(-97000),
               town |-> Str(Chars_Reading),
               prices |-> [t |-> "obj", E10 |-> Num(14990000)]]],
     [retailer |-> Str(Chars_BP),
      rec |-> [t |-> "obj", id |-> Num(3 * Unit), postcode |-> Str(<<"Z", "Z", "9", " ", "9", "Z", "Z">>),
               city |-> Str(Chars_Slough),
               prices |-> [t |-> "obj", B7 |-> Num(15590000)]]],
     [retailer |-> Str(Chars_Jet),
      rec |-> [t |-> "obj", id |-> Num(4 * Unit),
               prices |-> [t |-> "obj", E10 |-> Num(0), B7 |-> Num(15000000)]]],
     [retailer |-> Str(Chars_Esso),
      rec |-> [t |-> "obj", post_code |-> Str(Chars_SW1A1AA), town |-> Str(Chars_Leeds),
               fuel_type_services |->
                   List(<<[t |-> "obj", fuel_type |-> S_Unleaded, price |-> Str(<<"n", "/", "a">>)],
                          [t |-> "obj", fuel_type |-> S_Diesel,
                           price |-> Str(<<"1", "5", "2", ".", "9">>)]>>)]],
     [retailer |-> Str(Chars_BP),
      rec |-> [t |-> "obj", id |-> Num(6 * Unit), latitude |-> Num(5151500), longitude |-> Num(-59000),
               last_updated |-> Str(<<"T", "0">>),
               prices |-> [t |-> "obj", E10 |-> Num(14690000)]]]}

\* the live stations: what the normalizer makes of those records
LivePool ==
    {s \in {ParsedStation(r.rec, r.retailer, 0, 0) : r \in LiveRecordPool} : IsRetained(s)}

\* the averages fetchFuelPrices passes: toFixed(3) strings
AveragesPool ==
    {[petrol |-> Str(<<"1", ".", "4", "5", "2">>), diesel |-> Str(<<"1", ".", "5", "3", "4">>)],
     [petrol |-> Str(<<"1", ".", "4", "6", "0">>), diesel |-> Str(<<"1", ".", "5", "2", "9">>)]}

SeqsUpTo(S, n) == UNION {[1 .. k -> S] : k \in 0 .. n}

IsInjective(f) == \A i, j \in DOMAIN f : f[i] = f[j] => i = j

(***************************************************************************)
(* The matching engine run, and run again on the same inputs (a refresh)   *)
(***************************************************************************)
NoParse == [done |-> FALSE, threw |-> FALSE, stations |-> <<>>]

\* no record's prices have been extracted
NoExtract == [done |-> FALSE, after2 |-> NoPrices, after4 |-> NoPrices, slots |-> NoPrices]

IdlePrices ==
    /\ priceRecord = Undef
    /\ extracted = NoExtract

IdleFeed ==
    /\ feedData = Undef
    /\ feedRetailer = Str(<<>>)
    /\ parsedStations = NoParse

IdleCard ==
    /\ cardStation = EmptyStation
    /\ card = NoCard
    /\ policy = FUELQ_WEEKLY_PRICES

IdleFilter ==
    /\ allStations = <<>>
    /\ matchedStations = <<>>
    /\ searchQuery = <<>>
    /\ displayedStations = <<>>

NoLoad == [done |-> FALSE, threw |-> FALSE, sites |-> <<>>]

IdleLoader ==
    /\ dirResponse = Undef
    /\ loadResult = NoLoad

\* useState: fuelPrices and liveStationsCount before the first pass
NoFetch ==
    [done |-> FALSE, requested |-> FALSE, stations |-> <<>>, successfulFeeds |-> 0,
     liveStationsCount |-> 0,
     fuelPrices |-> [petrolAverage |-> Str(<<"1", ".", "4", "5", "2">>),
                     dieselAverage |-> Str(<<"1", ".", "5", "3", "4">>)]]

IdleFetch ==
    /\ workerResponse = Undef
    /\ demoSeed = 0
    /\ fetched = NoFetch

\* useState: the session before the component has mounted
NoSession ==
    [mounted |-> FALSE, isLoggedIn |-> FALSE, userType |-> "guest", activeScreen |-> "dashboard",
     loading |-> FALSE, refreshing |-> FALSE, showRestrictedModal |-> FALSE,
     restrictedScreen |-> ""]

IdleSession ==
    /\ session = NoSession
    /\ runs = <<>>
    /\ directoryRequests = 0

IdleApp == IdleFilter /\ IdleLoader /\ IdleFetch /\ IdleSession /\ IdlePrices

IdleMatch ==
    /\ liveStations = <<>>
    /\ ukFuelsSites = <<>>
    /\ averagePrices = [petrol |-> Undef, diesel |-> Undef]
    /\ matchResult = NoResult
    /\ rerunResult = NoResult

InitMatch ==
    /\ liveStations \in SeqsUpTo(LivePool, MaxLive)
    /\ ukFuelsSites \in {d \in SeqsUpTo(SitePool, MaxSites) : IsInjective(d)}
    /\ averagePrices \in AveragesPool
    /\ now = 0
    /\ matchResult = NoResult
    /\ rerunResult = NoResult
    /\ IdleFeed
    /\ IdleCard
    /\ IdleApp

\* fetchFuelPrices calls matchStationsWithUKFuels
RunMatch ==
    /\ ~matchResult.done
    /\ matchResult' = matchStationsWithUKFuels(liveStations, ukFuelsSites, averagePrices, now)
    /\ liveStations' = InputsAfterMatch(liveStations, ukFuelsSites).live
    /\ ukFuelsSites' = InputsAfterMatch(liveStations, ukFuelsSites).sites
    /\ UNCHANGED <<averagePrices, now, rerunResult, feedVars, priceVars, cardVars, appVars>>

\* a refresh runs the match again on the same inputs, some time later
RerunMatch ==
    /\ matchResult.done
    /\ ~rerunResult.done
    /\ \E dt \in 0 .. MaxDelay :
        /\ now' = now + dt
        /\ rerunResult' = matchStationsWithUKFuels(liveStations, ukFuelsSites, averagePrices, now + dt)
    /\ liveStations' = InputsAfterMatch(liveStations, ukFuelsSites).live
    /\ ukFuelsSites' = InputsAfterMatch(liveStations, ukFuelsSites).sites
    /\ UNCHANGED <<averagePrices, matchResult, feedVars, priceVars, cardVars, appVars>>

NextMatch == RunMatch \/ RerunMatch

SpecMatch == InitMatch /\ [][NextMatch]_vars

(***************************************************************************)
(* Properties of the matching engine                                       *)
(***************************************************************************)
IsSynthesized(s) == s.hasLivePricing = Bool(FALSE)

\* the entries of a result built from live stations, and the synthesized ones
LiveEntries(r) == SelectSeq(r.matched, HasLivePricing)
SynthesizedEntries(r) == SelectSeq(r.matched, IsSynthesized)

\* what each strategy can find for a station, stated on the directory itself
PostcodeHit(st, dir) ==
    /\ normalizeString(st.postcode) # <<>>
    /\ \E j \in DOMAIN dir : normalizeString(dir[j].postCode) = normalizeString(st.postcode)

Qualifies(st, site) ==
    /\ site.latitude.t = "num"
    /\ site.longitude.t = "num"
    /\ Closer(st.latitude.n - site.latitude.n, st.longitude.n - site.longitude.n,
              OuterThreshold * OuterThreshold)
    /\ \/ Square2(st.latitude.n - site.latitude.n, st.longitude.n - site.longitude.n)
              < InnerThreshold * InnerThreshold
       \/ BrandsMatch(normalizeString(site.brand), normalizeString(st.brand))

ProximityHit(st, dir) ==
    /\ st.latitude.t = "num" /\ st.latitude.n # 0
    /\ st.longitude.t = "num" /\ st.longitude.n # 0
    /\ \E j \in DOMAIN dir : Qualifies(st, dir[j])

BrandTownHit(st, dir) ==
    /\ normalizeString(st.brand) # <<>>
    /\ normalizeString(st.town) # <<>>
    /\ \E j \in DOMAIN dir :
        /\ normalizeString(dir[j].brand) = normalizeString(st.brand)
        /\ normalizeString(dir[j].town) = normalizeString(st.town)

AnyHit(st) ==
    PostcodeHit(st, ukFuelsSites) \/ ProximityHit(st, ukFuelsSites) \/ BrandTownHit(st, ukFuelsSites)

NoHit(st) == ~AnyHit(st)

\* the live stations some strategy finds a site for, in list order
HitStations == SelectSeq(liveStations, AnyHit)

\* entry e is the merge of station st with a site: the station's id, brand
\* and prices under the site's number
BuiltFrom(e, st) ==
    /\ e.id = Str(<<"m", "a", "t", "c", "h", "e", "d", "-">> \o ToStringJS(e.ukFuelsSiteNo)
                  \o <<"-">> \o ToStringJS(st.id))
    /\ e.brand = st.brand
    /\ e.petrol_price = st.petrol_price
    /\ e.diesel_price = st.diesel_price
    /\ e.super_price = st.super_price

SiteNumbers == {ukFuelsSites[j].siteNo : j \in DOMAIN ukFuelsSites}

\* C2: every entry of matched, live-priced or synthesized, carries the site
\* number of some site of the directory passed in.
C2_MatchedCarryDirectorySiteNo ==
    matchResult.done =>
        \A i \in DOMAIN matchResult.matched :
            /\ matchResult.matched[i].ukFuelsSiteNo.t = "num"
            /\ matchResult.matched[i].ukFuelsSiteNo \in SiteNumbers

C2_Witness ==
    /\ matchResult.done
    /\ matchResult.unmatched # <<>>
    /\ LiveEntries(matchResult) # <<>>
    /\ SynthesizedEntries(matchResult) # <<>>

\* C3: a live station no strategy finds a site for goes to unmatched and
\* nowhere else; every other live station yields exactly one live-priced
\* entry, in list order, and is not in unmatched; so live-priced entries plus
\* unmatched stations number the live stations.
C3_EachLiveStationInOnePlace ==
    matchResult.done =>
        /\ matchResult.unmatched = SelectSeq(liveStations, NoHit)
        /\ Len(LiveEntries(matchResult)) = Len(HitStations)
        /\ \A k \in DOMAIN HitStations : BuiltFrom(LiveEntries(matchResult)[k], HitStations[k])
        /\ Len(LiveEntries(matchResult)) + Len(matchResult.unmatched) = Len(liveStations)

C3_Witness ==
    /\ matchResult.done
    /\ Len(liveStations) = 2
    /\ Len(matchResult.unmatched) = 1
    /\ Len(LiveEntries(matchResult)) = 1

\* C4: liveCount is the number of entries of matched with hasLivePricing =
\* true, and is at most the length of matched.
C4_LiveCountCountsLiveEntries ==
    matchResult.done =>
        /\ matchResult.liveCount =
             Cardinality({i \in DOMAIN matchResult.matched :
                             matchResult.matched[i].hasLivePricing = Bool(TRUE)})
        /\ matchResult.liveCount <= Len(matchResult.matched)

C4_Witness ==
    /\ matchResult.done
    /\ matchResult.liveCount = 2
    /\ Len(matchResult.matched) = 3

\* the site of the directory that has number n
SiteWithNumber(n) == ukFuelsSites[CHOOSE j \in DOMAIN ukFuelsSites : ukFuelsSites[j].siteNo = n]

SamePostcode(st, site) == normalizeString(site.postCode) = normalizeString(st.postcode)

\* C5: a live station with a non-empty normalized postcode that some
\* directory site shares is matched to a site with that postcode, also when
\* another site is nearer or shares its brand and town.
C5_PostcodeTakesPriority ==
    matchResult.done =>
        \A k \in DOMAIN HitStations :
            PostcodeHit(HitStations[k], ukFuelsSites) =>
                /\ LiveEntries(matchResult)[k].ukFuelsSiteNo \in SiteNumbers
                /\ SamePostcode(HitStations[k],
                                SiteWithNumber(LiveEntries(matchResult)[k].ukFuelsSiteNo))

\* a postcode hit while a site with another postcode qualifies by proximity
\* and shares nothing else, or shares brand and town
C5_Witness ==
    /\ matchResult.done
    /\ \E k \in DOMAIN HitStations :
        /\ PostcodeHit(HitStations[k], ukFuelsSites)
        /\ \E j \in DOMAIN ukFuelsSites :
            /\ ~SamePostcode(HitStations[k], ukFuelsSites[j])
            /\ Qualifies(HitStations[k], ukFuelsSites[j])
            /\ HitStations[k].latitude.n # 0

\* C6: a directory site with petrol and diesel both false has no synthesized
\* entry in matched.
C6_NoFuelSiteNeverSynthesized ==
    matchResult.done =>
        \A j \in DOMAIN ukFuelsSites :
            (~Truthy(ukFuelsSites[j].petrol) /\ ~Truthy(ukFuelsSites[j].diesel)) =>
                \A i \in DOMAIN matchResult.matched :
                    IsSynthesized(matchResult.matched[i]) =>
                        matchResult.matched[i].ukFuelsSiteNo # ukFuelsSites[j].siteNo

\* a site without either flag that no live station claimed
C6_Witness ==
    /\ matchResult.done
    /\ \E j \in DOMAIN ukFuelsSites :
        /\ ~Truthy(ukFuelsSites[j].petrol) /\ ~Truthy(ukFuelsSites[j].diesel)
        /\ \A i \in DOMAIN matchResult.matched :
            matchResult.matched[i].ukFuelsSiteNo # ukFuelsSites[j].siteNo
    /\ SynthesizedEntries(matchResult) # <<>>

\* the site numbers some live-priced entry carries
ClaimedNumbers(r) == {r.matched[i].ukFuelsSiteNo : i \in {i \in DOMAIN r.matched : HasLivePricing(r.matched[i])}}

SynthesizedFor(r, n) ==
    {i \in DOMAIN r.matched : IsSynthesized(r.matched[i]) /\ r.matched[i].ukFuelsSiteNo = n}

\* C7: every directory site no live station claimed, with petrol or diesel
\* true, has exactly one synthesized entry: its site number, the averages
\* passed in as petrol and diesel price, no super price.
C7_UnclaimedSiteSynthesizedOnce ==
    matchResult.done =>
        \A j \in DOMAIN ukFuelsSites :
            (/\ ukFuelsSites[j].siteNo \notin ClaimedNumbers(matchResult)
             /\ (Truthy(ukFuelsSites[j].petrol) \/ Truthy(ukFuelsSites[j].diesel))) =>
                /\ Cardinality(SynthesizedFor(matchResult, ukFuelsSites[j].siteNo)) = 1
                /\ \A i \in SynthesizedFor(matchResult, ukFuelsSites[j].siteNo) :
                    /\ matchResult.matched[i].petrol_price = averagePrices.petrol
                    /\ matchResult.matched[i].diesel_price = averagePrices.diesel
                    /\ matchResult.matched[i].super_price = Null

\* one site claimed, one unclaimed site with a single flag synthesized
C7_Witness ==
    /\ matchResult.done
    /\ LiveEntries(matchResult) # <<>>
    /\ \E j \in DOMAIN ukFuelsSites :
        /\ ukFuelsSites[j].siteNo \notin ClaimedNumbers(matchResult)
        /\ Truthy(ukFuelsSites[j].petrol) # Truthy(ukFuelsSites[j].diesel)
        /\ SynthesizedFor(matchResult, ukFuelsSites[j].siteNo) # {}

\* C8: a second run on the same live list, directory and averages returns
\* the same matched (every field, last_updated included), unmatched and
\* liveCount, whenever it happens.
C8_RerunReturnsTheSame ==
    rerunResult.done => rerunResult = matchResult

\* the number of the site the engine merges the station with when the
\* station is the only one of the live list
SiteNoAlone(st) ==
    LiveEntries(matchStationsWithUKFuels(<<st>>, ukFuelsSites, averagePrices, now))[1].ukFuelsSiteNo

\* the positions of matched with a live-priced entry under site number n
LiveEntriesOf(n) ==
    {i \in DOMAIN matchResult.matched :
        /\ matchResult.matched[i].hasLivePricing = Bool(TRUE)
        /\ matchResult.matched[i].ukFuelsSiteNo = n}

\* C14: the set of claimed sites is not consulted while matching: each live
\* station is merged with the site it is merged with when matched alone,
\* whatever the stations before it claimed; two live stations that match
\* the same site give two live-priced entries of matched with its number.
C14_ClaimedSiteMatchesAgain ==
    matchResult.done =>
        /\ Len(LiveEntries(matchResult)) = Len(HitStations)
        /\ \A k \in DOMAIN HitStations :
            LiveEntries(matchResult)[k].ukFuelsSiteNo = SiteNoAlone(HitStations[k])
        /\ \A j, k \in DOMAIN HitStations :
            (j < k /\ SiteNoAlone(HitStations[j]) = SiteNoAlone(HitStations[k]))
                => Cardinality(LiveEntriesOf(SiteNoAlone(HitStations[j]))) >= 2

\* two different live stations merged with the same site
C14_Witness ==
    /\ matchResult.done
    /\ Len(liveStations) = 2
    /\ liveStations[1] # liveStations[2]
    /\ Len(LiveEntries(matchResult)) = 2
    /\ LiveEntries(matchResult)[1].ukFuelsSiteNo = LiveEntries(matchResult)[2].ukFuelsSiteNo

\* a || b for a site's string field a
SiteOrStation(a, b) == IF a = Str(<<>>) THEN b ELSE a

\* C15: for every live station matched to a site, the merged entry has the
\* three prices of the live station, the latitude and longitude of the site,
\* hasLivePricing = true, and for name, address, town and postcode the
\* site's siteName, street1, town and postCode where that is not empty and
\* the live station's value where it is.
C15_MergedFieldsBySource ==
    matchResult.done =>
        /\ Len(LiveEntries(matchResult)) = Len(HitStations)
        /\ \A k \in DOMAIN HitStations :
            /\ LiveEntries(matchResult)[k].petrol_price = HitStations[k].petrol_price
            /\ LiveEntries(matchResult)[k].diesel_price = HitStations[k].diesel_price
            /\ LiveEntries(matchResult)[k].super_price = HitStations[k].super_price
            /\ LiveEntries(matchResult)[k].hasLivePricing = Bool(TRUE)
            /\ LiveEntries(matchResult)[k].latitude
                 = SiteWithNumber(LiveEntries(matchResult)[k].ukFuelsSiteNo).latitude
            /\ LiveEntries(matchResult)[k].longitude
                 = SiteWithNumber(LiveEntries(matchResult)[k].ukFuelsSiteNo).longitude
            /\ LiveEntries(matchResult)[k].name
                 = SiteOrStation(SiteWithNumber(LiveEntries(matchResult)[k].ukFuelsSiteNo).siteName,
                                 HitStations[k].name)
            /\ LiveEntries(matchResult)[k].address
                 = SiteOrStation(SiteWithNumber(LiveEntries(matchResult)[k].ukFuelsSiteNo).street1,
                                 HitStations[k].address)
            /\ LiveEntries(matchResult)[k].town
                 = SiteOrStation(SiteWithNumber(LiveEntries(matchResult)[k].ukFuelsSiteNo).town,
                                 HitStations[k].town)
            /\ LiveEntries(matchResult)[k].postcode
                 = SiteOrStation(SiteWithNumber(LiveEntries(matchResult)[k].ukFuelsSiteNo).postCode,
                                 HitStations[k].postcode)

\* a live station merged with a site that has a name, and one merged with a
\* site whose name is empty
C15_Witness ==
    /\ matchResult.done
    /\ \E k \in DOMAIN LiveEntries(matchResult) :
        /\ SiteWithNumber(LiveEntries(matchResult)[k].ukFuelsSiteNo).siteName # Str(<<>>)
        /\ LiveEntries(matchResult)[k].name # HitStations[k].name
    /\ \E k \in DOMAIN LiveEntries(matchResult) :
        SiteWithNumber(LiveEntries(matchResult)[k].ukFuelsSiteNo).siteName = Str(<<>>)

\* C15 as the specification states it: name, address, town, postcode,
\* latitude and longitude of a merged entry are the site's, whatever they are
C15_MergedFieldsAreTheSites ==
    matchResult.done =>
        \A k \in DOMAIN LiveEntries(matchResult) :
            /\ LiveEntries(matchResult)[k].hasLivePricing = Bool(TRUE)
            /\ LiveEntries(matchResult)[k].name
                 = SiteWithNumber(LiveEntries(matchResult)[k].ukFuelsSiteNo).siteName
            /\ LiveEntries(matchResult)[k].address
                 = SiteWithNumber(LiveEntries(matchResult)[k].ukFuelsSiteNo).street1
            /\ LiveEntries(matchResult)[k].town
                 = SiteWithNumber(LiveEntries(matchResult)[k].ukFuelsSiteNo).town
            /\ LiveEntries(matchResult)[k].postcode
                 = SiteWithNumber(LiveEntries(matchResult)[k].ukFuelsSiteNo).postCode
            /\ LiveEntries(matchResult)[k].latitude
                 = SiteWithNumber(LiveEntries(matchResult)[k].ukFuelsSiteNo).latitude
            /\ LiveEntries(matchResult)[k].longitude
                 = SiteWithNumber(LiveEntries(matchResult)[k].ukFuelsSiteNo).longitude

\* C19: a matching pass leaves its inputs unchanged: when the call returns,
\* the live list and the directory list hold the same elements in the same
\* order, no field modified, and unmatched holds, in order, live stations of
\* the list as they were passed in.
C19_MatchLeavesInputsUnchanged ==
    [][(matchResult'.done /\ (matchResult' # matchResult \/ rerunResult' # rerunResult)) =>
          /\ liveStations' = liveStations
          /\ ukFuelsSites' = ukFuelsSites
          /\ \E idx \in [DOMAIN matchResult'.unmatched -> DOMAIN liveStations] :
                /\ \A j, k \in DOMAIN idx : j < k => idx[j] < idx[k]
                /\ \A k \in DOMAIN idx : matchResult'.unmatched[k] = liveStations[idx[k]]]_vars

\* the call has returned with a merged entry and an unmatched station
C19_Witness ==
    /\ matchResult.done
    /\ rerunResult.done
    /\ matchResult.unmatched # <<>>
    /\ LiveEntries(matchResult) # <<>>
    /\ ukFuelsSites # <<>>

\* C28: no directory site number appears in matched both as a live-priced
\* entry and as a synthesized entry, and every live-priced entry of matched
\* precedes every synthesized entry.
C28_LiveAndSynthesizedApart ==
    matchResult.done =>
        \A i, j \in DOMAIN matchResult.matched :
            (HasLivePricing(matchResult.matched[i]) /\ IsSynthesized(matchResult.matched[j])) =>
                /\ matchResult.matched[i].ukFuelsSiteNo # matchResult.matched[j].ukFuelsSiteNo
                /\ i < j

\* a live station has claimed a site that sells fuel, and another site is
\* synthesized
C28_Witness ==
    /\ matchResult.done
    /\ SynthesizedEntries(matchResult) # <<>>
    /\ \E i \in DOMAIN matchResult.matched :
        /\ HasLivePricing(matchResult.matched[i])
        /\ \E j \in DOMAIN ukFuelsSites :
            /\ ukFuelsSites[j].siteNo = matchResult.matched[i].ukFuelsSiteNo
            /\ Truthy(ukFuelsSites[j].petrol)

(***************************************************************************)
(* The matching engine run on stations and sites that lie close together   *)
(***************************************************************************)
Chars_Luton == <<"L", "u", "t", "o", "n">>
Chars_Sainsburys == <<"S", "a", "i", "n", "s", "b", "u", "r", "y", "s">>

\* directory sites around 52.00000, -0.20000: 0.0005 away under another
\* brand, 0.003 away under another brand, 0.005 away (two of them, one
\* spelled with an apostrophe), 0.004 away without a brand, 0.02 away
NearRawSitePool ==
    {[t |-> "obj", siteNo |-> Num(101 * Unit), lat |-> Num(5200050), lng |-> Num(-20000),
      brand |-> Str(Chars_Esso), petrol |-> Bool(TRUE)],
     [t |-> "obj", siteNo |-> Num(102 * Unit), lat |-> Num(5200300), lng |-> Num(-20000),
      brand |-> Str(Chars_Shell), petrol |-> Bool(TRUE)],
     [t |-> "obj", siteNo |-> Num(103 * Unit), lat |-> Num(5200000), lng |-> Num(-20500),
      brand |-> Str(<<"b", "p">>), diesel |-> Bool(TRUE)],
     [t |-> "obj", siteNo |-> Num(104 * Unit), lat |-> Num(5200000), lng |-> Num(-19500),
      brand |-> Str(<<"S", "a", "i", "n", "s", "b", "u", "r", "y", "'", "s">>),
      petrol |-> Bool(TRUE)],
     [t |-> "obj", siteNo |-> Num(105 * Unit), lat |-> Num(5200400), lng |-> Num(-20000),
      petrol |-> Bool(TRUE)],
     [t |-> "obj", siteNo |-> Num(106 * Unit), lat |-> Num(5202000), lng |-> Num(-20000),
      brand |-> Str(Chars_BP), town |-> Str(Chars_Luton), diesel |-> Bool(TRUE)]}

NearSitePool == {ConvertSite(FullRawSite(site)) : site \in NearRawSitePool}

\* feed records at 52.00000, -0.20000, and one without coordinates
NearRecordPool ==
    {[retailer |-> Str(Chars_BP),
      rec |-> [t |-> "obj", id |-> Num(1 * Unit), lat |-> Num(5200000), lng |-> Num(-20000),
               town |-> Str(Chars_Luton), prices |-> [t |-> "obj", E10 |-> Num(14590000)]]],
     [retailer |-> Str(Chars_Sainsburys),
      rec |-> [t |-> "obj", id |-> Num(2 * Unit), lat |-> Num(5200000), lng |-> Num(-20000),
               prices |-> [t |-> "obj", E10 |-> Num(14790000)]]],
     [retailer |-> Str(Chars_BP),
      rec |-> [t |-> "obj", id |-> Num(3 * Unit), town |-> Str(Chars_Luton),
               prices |-> [t |-> "obj", B7 |-> Num(15590000)]]]}

NearLivePool ==
    {s \in {ParsedStation(r.rec, r.retailer, 0, 0) : r \in NearRecordPool} : IsRetained(s)}

InitProximity ==
    /\ liveStations \in SeqsUpTo(NearLivePool, MaxLive)
    /\ ukFuelsSites \in {d \in SeqsUpTo(NearSitePool, MaxSites) : IsInjective(d)}
    /\ averagePrices \in AveragesPool
    /\ now = 0
    /\ matchResult = NoResult
    /\ rerunResult = NoResult
    /\ IdleFeed
    /\ IdleCard
    /\ IdleApp

SpecProximity == InitProximity /\ [][NextMatch]_vars

\* the squared planar distance between a station and a site
Distance2(st, site) ==
    Square2(st.latitude.n - site.latitude.n, st.longitude.n - site.longitude.n)

\* the station got no postcode match and has non-zero coordinates
ProximityTried(st) ==
    /\ ~PostcodeHit(st, ukFuelsSites)
    /\ st.latitude.t = "num" /\ st.latitude.n # 0
    /\ st.longitude.t = "num" /\ st.longitude.n # 0

\* the site is a qualifying site with no qualifying site of the directory
\* nearer to the station
NearestQualifying(st, site) ==
    /\ Qualifies(st, site)
    /\ \A j \in DOMAIN ukFuelsSites :
        Qualifies(st, ukFuelsSites[j]) => Distance2(st, site) <= Distance2(st, ukFuelsSites[j])

\* the site was found by the brand_town lookup
SameBrandAndTown(st, site) ==
    /\ normalizeString(site.brand) = normalizeString(st.brand)
    /\ normalizeString(site.town) = normalizeString(st.town)

\* C21 (as amended): proximity is attempted only for a station with non-zero
\* coordinates that got no postcode match; the site it selects has d < 0.01
\* and either d < 0.001 or a normalized brand (upper-cased, every character
\* other than A-Z and 0-9 removed) that is a substring of the station's
\* normalized brand or vice versa, and is a minimum-distance site among the
\* directory sites satisfying that; if no site qualifies, proximity yields no
\* match and the station is matched by brand and town or not at all.
C21_ProximityPicksNearestQualifying ==
    matchResult.done =>
        \A k \in DOMAIN HitStations :
            LET st == HitStations[k]
                no == LiveEntries(matchResult)[k].ukFuelsSiteNo
            IN  /\ no \in SiteNumbers
                /\ PostcodeHit(st, ukFuelsSites) => SamePostcode(st, SiteWithNumber(no))
                /\ (ProximityTried(st) /\ ProximityHit(st, ukFuelsSites))
                       => NearestQualifying(st, SiteWithNumber(no))
                /\ (~PostcodeHit(st, ukFuelsSites) /\ ~ProximityHit(st, ukFuelsSites))
                       => SameBrandAndTown(st, SiteWithNumber(no))

\* a station matched by proximity to a farther site while a nearer site of
\* the directory, scanned before it, fails the brand check
C21_Witness ==
    /\ matchResult.done
    /\ \E k \in DOMAIN HitStations :
        /\ ProximityTried(HitStations[k])
        /\ \E i, j \in DOMAIN ukFuelsSites :
            /\ i < j
            /\ ukFuelsSites[j].siteNo = LiveEntries(matchResult)[k].ukFuelsSiteNo
            /\ ~Qualifies(HitStations[k], ukFuelsSites[i])
            /\ Distance2(HitStations[k], ukFuelsSites[i]) < Distance2(HitStations[k], ukFuelsSites[j])

\* a brand is a case-insensitive substring of the other
CaseInsensitiveSubstring(a, b) ==
    \/ Includes(ToLowerCase(ToStringJS(a)), ToLowerCase(ToStringJS(b)))
    \/ Includes(ToLowerCase(ToStringJS(b)), ToLowerCase(ToStringJS(a)))

\* C21 (as stated): the site proximity selects has d < 0.01 and either
\* d < 0.001 or a brand that is a case-insensitive substring of the
\* station's brand or vice versa.
C21_SelectedBrandIsSubstring ==
    matchResult.done =>
        \A k \in DOMAIN HitStations :
            LET st == HitStations[k]
                site == SiteWithNumber(LiveEntries(matchResult)[k].ukFuelsSiteNo)
            IN  (ProximityTried(st) /\ ProximityHit(st, ukFuelsSites)) =>
                    /\ Distance2(st, site) < OuterThreshold * OuterThreshold
                    /\ \/ Distance2(st, site) < InnerThreshold * InnerThreshold
                       \/ CaseInsensitiveSubstring(site.brand, st.brand)

(***************************************************************************)
(* The normalizer run on one retailer's feed payload                       *)
(***************************************************************************)
S_NA == Str(<<"n", "/", "a">>)

\* records the normalizer drops or skips, next to those of LiveRecordPool
EdgeRecordPool ==
    {[t |-> "obj"],
     Null,
     [t |-> "obj", id |-> Num(21 * Unit), prices |-> [t |-> "obj", E10 |-> Num(0)]],
     [t |-> "obj", id |-> Num(22 * Unit), prices |-> [t |-> "obj", B7 |-> Num(15290000)],
      fuel_type_services |-> Str(<<"n", "o", "n", "e">>)],
     [t |-> "obj", id |-> Num(23 * Unit), prices |-> [t |-> "obj", E5 |-> Num(15990000)]],
     [t |-> "obj", id |-> Num(24 * Unit), unleaded |-> S_NA],
     [t |-> "obj", id |-> Num(25 * Unit), prices |-> [t |-> "obj", unleaded |-> S_NA]],
     [t |-> "obj", id |-> Num(26 * Unit),
      fuelPrices |-> [t |-> "obj", E10 |-> Str(<<"1", "4", "5", ".", "9">>)]]}

\* a record whose source identifier is 0
ZeroIdRecordPool ==
    {[t |-> "obj", id |-> Num(0), prices |-> [t |-> "obj", E10 |-> Num(14890000)]]}

FeedRecordPool == {r.rec : r \in LiveRecordPool} \cup EdgeRecordPool \cup ZeroIdRecordPool

\* the shapes a payload holding the record list l takes
PayloadsOf(l) ==
    {List(l),
     [t |-> "obj", keys |-> <<"stations">>, stations |-> List(l)],
     [t |-> "obj", keys |-> <<"last_updated", "forecourts">>,
      last_updated |-> Str(<<"T", "0">>), forecourts |-> List(l)],
     [t |-> "obj", keys |-> <<"updated", "outlets">>,
      updated |-> Str(<<"T", "0">>), outlets |-> List(l)]}

\* payloads without a record list
MalformedPayloads ==
    {Null, Undef, Str(<<"o", "o", "p", "s">>), Num(5 * Unit),
     [t |-> "obj", keys |-> <<"success", "data">>, success |-> Bool(TRUE),
      data |-> [t |-> "obj", keys |-> <<"count">>, count |-> Num(0)]],
     [t |-> "obj", keys |-> <<"stations">>, stations |-> Str(<<"o", "o", "p", "s">>)],
     [t |-> "obj", keys |-> <<"error">>, error |-> Str(<<"o", "o", "p", "s">>)]}

\* record lists with a record whose extraction throws between two others
SandwichPool ==
    {<<a, bad, b>> : a \in {r.rec : r \in {x \in LiveRecordPool : x.retailer = Str(Chars_Esso)}}
                         \cup {r.rec : r \in {x \in LiveRecordPool : x.retailer = Str(Chars_Tesco)}},
                     bad \in {r \in EdgeRecordPool : RecordThrows(r)},
                     b \in {r.rec : r \in {x \in LiveRecordPool : x.retailer = Str(Chars_Esso)}}}

\* two records that are retained, told apart by their ids
RecordOne == (CHOOSE r \in LiveRecordPool : Prop(r.rec, "id") = Num(1 * Unit)).rec
RecordTwo == (CHOOSE r \in LiveRecordPool : Prop(r.rec, "id") = Num(2 * Unit)).rec

\* payloads with several candidate record lists, their keys in the order
\* the object enumerates them
SeveralListsPool ==
    {[t |-> "obj", keys |-> <<"data", "stations">>,
      data |-> List(<<RecordOne>>), stations |-> List(<<RecordTwo>>)],
     [t |-> "obj", keys |-> <<"forecourts", "results">>,
      forecourts |-> List(<<RecordOne>>), results |-> List(<<RecordTwo>>)],
     [t |-> "obj", keys |-> <<"outlets", "forecourts">>,
      outlets |-> List(<<RecordOne>>), forecourts |-> List(<<RecordTwo>>)],
     [t |-> "obj", keys |-> <<"stations", "data">>,
      stations |-> List(<<>>), data |-> List(<<RecordOne>>)],
     [t |-> "obj", keys |-> <<"stations", "data">>,
      stations |-> Null, data |-> List(<<RecordOne>>)],
     [t |-> "obj", keys |-> <<"meta", "outlets", "pumps">>,
      meta |-> List(<<>>), outlets |-> List(<<RecordOne>>), pumps |-> List(<<RecordTwo>>)],
     [t |-> "obj", keys |-> <<"count", "pumps", "outlets">>,
      count |-> Num(2 * Unit), pumps |-> List(<<RecordTwo>>), outlets |-> List(<<RecordOne>>)]}

FeedPool ==
    UNION {PayloadsOf(l) : l \in SeqsUpTo(FeedRecordPool, MaxRecords) \cup SandwichPool}
        \cup MalformedPayloads \cup SeveralListsPool

RetailerPool == {Str(Chars_Tesco), Str(Chars_Shell)}

InitNormalizer ==
    /\ feedData \in FeedPool
    /\ feedRetailer \in RetailerPool
    /\ now \in 0 .. MaxDelay
    /\ parsedStations = NoParse
    /\ IdleMatch
    /\ IdleCard
    /\ IdleApp

\* fetchFuelPrices hands one retailer's response to parseStationData
Normalize ==
    /\ ~parsedStations.done
    /\ parsedStations' = [done |-> TRUE,
                          threw |-> parseStationDataThrows(feedData),
                          stations |-> parseStationData(feedData, feedRetailer, now)]
    /\ UNCHANGED <<feedData, feedRetailer, priceVars, now, matchVars, cardVars, appVars>>

NextNormalizer == Normalize

SpecNormalizer == InitNormalizer /\ [][NextNormalizer]_vars

(***************************************************************************)
(* Properties of the normalizer                                            *)
(***************************************************************************)
PriceSlots == {"petrol_price", "diesel_price", "super_price"}

\* the records of the payload, where it has a record list
FeedRecords == IF DiscoveryThrows(feedData) THEN <<>> ELSE StationArray(feedData).l

\* the records whose three price slots are all null after extraction
AllNullRecords ==
    {i \in DOMAIN FeedRecords :
        /\ ~RecordThrows(FeedRecords[i])
        /\ ExtractPrices(FeedRecords[i]) = NoPrices}

\* the records that extract without throwing to some non-null price slot
PricedRecords ==
    {i \in DOMAIN FeedRecords : ~RecordThrows(FeedRecords[i])} \ AllNullRecords

\* the ways to pick, in list order, one priced record per returned station
Origins(n) ==
    {idx \in [1 .. n -> PricedRecords] : \A j, k \in 1 .. n : j < k => idx[j] < idx[k]}

\* C1: every station the normalizer returns has a non-null petrol, diesel or
\* super price, and the returned stations are built, in list order, from
\* records of the payload none of which has its three price slots all null
\* after extraction.
C1_ReturnedStationsHaveAPrice ==
    parsedStations.done =>
        /\ \A k \in DOMAIN parsedStations.stations :
            \E f \in PriceSlots : parsedStations.stations[k][f] \notin {Null, Undef}
        /\ \E idx \in Origins(Len(parsedStations.stations)) :
            \A k \in DOMAIN parsedStations.stations :
                parsedStations.stations[k]
                    = ParsedStation(FeedRecords[idx[k]], feedRetailer, idx[k] - 1, now)

\* a payload with a retained record and an all-null record
C1_Witness ==
    /\ parsedStations.done
    /\ AllNullRecords # {}
    /\ parsedStations.stations # <<>>

\* the payload is no list and, where it is an object, none of its properties
\* holds a list
HasNoRecordList(data) ==
    /\ data.t # "list"
    /\ data.t = "obj" => \A i \in DOMAIN data.keys : data[data.keys[i]].t # "list"

\* C12: for every payload with no record list (null, undefined, a scalar, an
\* object none of whose keys holds a list, a known key holding a non-list)
\* the normalizer returns the empty list and does not throw.
C12_NoRecordListGivesEmpty ==
    (parsedStations.done /\ HasNoRecordList(feedData)) =>
        /\ ~parsedStations.threw
        /\ parsedStations.stations = <<>>

\* the normalizer has returned for an object whose known key holds a non-list
C12_Witness ==
    /\ parsedStations.done
    /\ feedData.t = "obj"
    /\ HasNoRecordList(feedData)
    /\ \E i \in DOMAIN KnownListKeys : Truthy(Prop(feedData, KnownListKeys[i]))

IsExtracted(station) == ~RecordThrows(station)

\* what the normalizer returns for the payload's records without those whose
\* extraction throws
WithoutFailing ==
    StationLoop(SelectSeq(FeedRecords, IsExtracted), feedRetailer, now, 1, <<>>)

WithoutId(s) == [f \in DOMAIN s \ {"id"} |-> s[f]]

\* the identifiers `${retailerName}-${index}` of the payload's positions
PositionalIds ==
    {Str(feedRetailer.s \o <<"-">> \o ToStringJS(Num(i * Unit))) : i \in 0 .. Len(FeedRecords)}

\* C13: the records whose extraction throws are skipped; the normalizer
\* returns for the other records, before and after them, what it returns for
\* the payload without the failing records, apart from identifiers made of
\* the position in the list.
C13_FailingRecordIsSkippedAlone ==
    parsedStations.done =>
        /\ Len(parsedStations.stations) = Len(WithoutFailing)
        /\ \A k \in DOMAIN parsedStations.stations :
            \/ parsedStations.stations[k] = WithoutFailing[k]
            \/ /\ WithoutId(parsedStations.stations[k]) = WithoutId(WithoutFailing[k])
               /\ parsedStations.stations[k].id \in PositionalIds
               /\ WithoutFailing[k].id \in PositionalIds

\* a record whose extraction throws, between two records that are returned
C13_Witness ==
    /\ parsedStations.done
    /\ Len(FeedRecords) = 3
    /\ RecordThrows(FeedRecords[2])
    /\ Len(parsedStations.stations) = 2
    /\ parsedStations.stations[2] # WithoutFailing[2]

\* C22: the ids of the stations produced in one ingestion run are pairwise
\* distinct, including when records repeat a source identifier, when one
\* record's source identifier equals another record's positional index, or
\* when a source identifier is 0.
C22_StationIdsAreDistinct ==
    parsedStations.done =>
        \A i, j \in DOMAIN parsedStations.stations :
            i # j => parsedStations.stations[i].id # parsedStations.stations[j].id

\* C23: in every station the normalizer returns, each of petrol_price,
\* diesel_price and super_price is null or a finite number, never a
\* not-a-number value or a string.
C23_PriceSlotsAreNullOrNumbers ==
    parsedStations.done =>
        \A i \in DOMAIN parsedStations.stations :
            \A slot \in PriceSlots : parsedStations.stations[i][slot].t \in {"null", "num"}

\* the precedence of the top-level keys, as the claim lists them
ClaimedPrecedence ==
    <<"stations", "data", "results", "fuel_prices", "items", "sites", "locations",
      "stores", "forecourts">>

\* the places of the listed keys that are present (hold a truthy value)
PresentListed(data) ==
    {i \in DOMAIN ClaimedPrecedence : Truthy(Prop(data, ClaimedPrecedence[i]))}

\* the places of the payload's own keys that hold a non-empty list
NonEmptyLists(data) ==
    {i \in DOMAIN data.keys : Prop(data, data.keys[i]).t = "list"
                                 /\ Len(Prop(data, data.keys[i]).l) > 0}

Least(S) == CHOOSE i \in S : \A j \in S : i <= j

\* the record list the claim says is picked
ClaimedRecordList(data) ==
    IF data.t = "list" THEN data
    ELSE IF PresentListed(data) # {}
    THEN Prop(data, ClaimedPrecedence[Least(PresentListed(data))])
    ELSE IF NonEmptyLists(data) # {}
    THEN Prop(data, data.keys[Least(NonEmptyLists(data))])
    ELSE List(<<>>)

PricesObjectPool ==
    [t : {"obj"},
     E10 : {Undef, Num(0), Num(14590000)},
     E5 : {Undef, Num(15990000), Str(<<"1", "5", "9", ".", "9">>)},
     B7 : {Undef, Num(0), Num(15340000)},
     SDV : {Undef, Num(16000000)},
     unleaded : {Undef, Num(0), Str(<<"1", ".", "4", "7", "9">>)},
     diesel : {Undef, Str(<<"1", ".", "5", "5", "9">>)},
     super_unleaded : {Undef, Str(<<"1", ".", "6", "9", "9">>)}]

\* what rules 1 to 4 find in the records of the flat fallback cascade
EarlierRulesPool ==
    {[t |-> "obj"],
     [t |-> "obj", prices |-> [t |-> "obj", E10 |-> Num(14590000)]],
     [t |-> "obj", prices |-> [t |-> "obj", B7 |-> Num(15340000)]],
     [t |-> "obj", prices |-> [t |-> "obj", E5 |-> Num(15990000)]],
     [t |-> "obj", prices |-> [t |-> "obj", E10 |-> Num(0)]],
     [t |-> "obj", fuelPrices |-> [t |-> "obj", B7 |-> Str(<<"1", "5", "3", ".", "4">>)]]}

\* the flat fields: each absent or present, petrol_price also zero
FlatFieldsPool ==
    [unleaded : {Undef, Str(<<"1", "4", "7", ".", "9">>)},
     diesel : {Undef, Str(<<"1", "5", "5", ".", "9">>)},
     super_unleaded : {Undef, Str(<<"1", "6", "9", ".", "9">>)},
     unleaded_price : {Undef, Str(<<"1", ".", "4", "8", "1">>)},
     diesel_price : {Undef, Num(156100)},
     super_unleaded_price : {Undef, Str(<<"1", ".", "7", "0", "1">>)},
     petrol : {Undef, Str(<<"1", ".", "4", "8", "2">>)},
     petrol_price : {Undef, Num(0), Str(<<"1", ".", "4", "8", "3">>)},
     fuel_prices : {Undef,
                    [t |-> "obj", unleaded |-> Str(<<"1", ".", "4", "8", "4">>)],
                    [t |-> "obj", diesel |-> Str(<<"1", ".", "5", "6", "4">>)],
                    [t |-> "obj", unleaded |-> Str(<<"1", ".", "4", "8", "4">>), diesel |-> Str(<<"1", ".", "5", "6", "4">>)]}]

FlatFieldNames == DOMAIN (CHOOSE f \in FlatFieldsPool : TRUE)

\* a record with the earlier rules' properties and the flat fields
FlatRecord(earlier, flat) ==
    [f \in DOMAIN earlier \cup FlatFieldNames |->
        IF f \in FlatFieldNames THEN flat[f] ELSE earlier[f]]

PriceRecordPool ==
    {[t |-> "obj", prices |-> prices] : prices \in PricesObjectPool}
        \cup {FlatRecord(earlier, flat) : earlier \in EarlierRulesPool, flat \in FlatFieldsPool}

InitPrices ==
    /\ priceRecord \in PriceRecordPool
    /\ extracted = NoExtract
    /\ now = 0
    /\ IdleMatch
    /\ IdleFeed
    /\ IdleCard
    /\ IdleFilter
    /\ IdleLoader
    /\ IdleFetch
    /\ IdleSession

\* the price rules of parseStationData's forEach callback run on the record
ExtractRecordPrices ==
    /\ ~extracted.done
    /\ extracted' =
         [done |-> TRUE,
          after2 |-> PricesObjectRule(NoPrices, priceRecord),
          after4 |-> FuelPricesRule(
                         FuelTypeServicesRule(PricesObjectRule(NoPrices, priceRecord),
                                              priceRecord), priceRecord),
          slots |-> ExtractPrices(priceRecord)]
    /\ UNCHANGED <<priceRecord, now, matchVars, feedVars, cardVars, filterVars, loaderVars,
                   fetchVars, sessionVars>>

NextPrices == ExtractRecordPrices

SpecPrices == InitPrices /\ [][NextPrices]_vars

(***************************************************************************)
(* Properties of the price cascade                                         *)
(***************************************************************************)
\* value / 100 of a numeric key of `prices`, null when the key is not a number
Hundredth(v) == IF v.t = "num" THEN Num(v.n \div 100) ELSE Null

\* the value of an overwriting key when it is truthy, else the value before
Overwritten(v, before) == IF Truthy(v) THEN parseFloat(v) ELSE before

\* C24 (as amended): inside `prices`, numeric E10, E5, B7 set petrol, super,
\* diesel to value/100; SDV sets diesel to value/100 only when diesel is
\* unset or zero after B7 and never replaces a non-zero diesel price taken
\* from B7; then prices.unleaded, prices.diesel and prices.super_unleaded,
\* when present and truthy (not 0, '' or null), overwrite the petrol, diesel
\* and super slots, whatever rule 1 assigned.
C24_PricesObjectRules ==
    (extracted.done /\ Truthy(Prop(priceRecord, "prices"))) =>
        LET prices == priceRecord.prices
            B7 == Hundredth(Prop(prices, "B7"))
            SDV == Hundredth(Prop(prices, "SDV"))
        IN  /\ extracted.after2.petrol =
                 Overwritten(Prop(prices, "unleaded"), Hundredth(Prop(prices, "E10")))
            /\ extracted.after2.super =
                 Overwritten(Prop(prices, "super_unleaded"), Hundredth(Prop(prices, "E5")))
            /\ extracted.after2.diesel =
                 Overwritten(Prop(prices, "diesel"),
                             IF B7.t = "num" /\ B7.n # 0 THEN B7
                             ELSE IF SDV.t = "num" THEN SDV ELSE B7)

\* B7 and SDV both numeric and not zero, and no prices.diesel
C24_Witness ==
    /\ extracted.done
    /\ Truthy(Prop(priceRecord, "prices"))
    /\ Truthy(Prop(priceRecord.prices, "B7"))
    /\ Truthy(Prop(priceRecord.prices, "SDV"))
    /\ ~Truthy(Prop(priceRecord.prices, "diesel"))
    /\ Truthy(Prop(priceRecord.prices, "unleaded"))
    /\ Truthy(Prop(priceRecord.prices, "E10"))

\* C24 (as stated): SDV never replaces a diesel price taken from B7, and
\* prices.unleaded, prices.diesel, prices.super_unleaded, when present,
\* overwrite the slots unconditionally.
C24_SDVNeverReplacesB7 ==
    (extracted.done /\ Truthy(Prop(priceRecord, "prices"))) =>
        LET prices == priceRecord.prices
        IN  /\ (Prop(prices, "B7").t = "num" /\ Prop(prices, "diesel") = Undef)
                   => extracted.after2.diesel = Hundredth(Prop(prices, "B7"))
            /\ Prop(prices, "unleaded") # Undef
                   => extracted.after2.petrol = parseFloat(Prop(prices, "unleaded"))

\* the last truthy value of the cascade's fields for a slot, converted as
\* the cascade converts it; `before` when none is truthy
RECURSIVE LastOfCascade(_, _)
LastOfCascade(fields, before) ==
    IF fields = <<>> THEN before
    ELSE IF Truthy(fields[Len(fields)].v)
    THEN (IF fields[Len(fields)].pence
          THEN Div100(parseFloat(fields[Len(fields)].v))
          ELSE parseFloat(fields[Len(fields)].v))
    ELSE LastOfCascade(SubSeq(fields, 1, Len(fields) - 1), before)

PetrolCascade(r) ==
    <<[v |-> Prop(r, "unleaded"), pence |-> TRUE],
      [v |-> Prop(r, "unleaded_price"), pence |-> FALSE],
      [v |-> Prop(r, "petrol"), pence |-> FALSE],
      [v |-> Prop(r, "petrol_price"), pence |-> FALSE],
      [v |-> Prop(Prop(r, "fuel_prices"), "unleaded"), pence |-> FALSE]>>

DieselCascade(r) ==
    <<[v |-> Prop(r, "diesel"), pence |-> TRUE],
      [v |-> Prop(r, "diesel_price"), pence |-> FALSE],
      [v |-> Prop(Prop(r, "fuel_prices"), "diesel"), pence |-> FALSE]>>

SuperCascade(r) ==
    <<[v |-> Prop(r, "super_unleaded"), pence |-> TRUE],
      [v |-> Prop(r, "super_unleaded_price"), pence |-> FALSE]>>

\* C25 (as amended): the flat fallback cascade runs only when petrol and
\* diesel are both unset or zero after rules 1-4: if rules 1-4 set petrol or
\* diesel to a non-zero price, no flat fallback field changes any of the
\* three slots; when it runs, the last truthy field of the cascade for a
\* slot determines that slot.
C25_FlatFallbackOnlyWhenUnset ==
    extracted.done =>
        IF Truthy(extracted.after4.petrol) \/ Truthy(extracted.after4.diesel)
        THEN extracted.slots = extracted.after4
        ELSE /\ extracted.slots.petrol =
                  LastOfCascade(PetrolCascade(priceRecord), extracted.after4.petrol)
             /\ extracted.slots.diesel =
                  LastOfCascade(DieselCascade(priceRecord), extracted.after4.diesel)
             /\ extracted.slots.super =
                  LastOfCascade(SuperCascade(priceRecord), extracted.after4.super)

\* rules 1-4 set diesel alone and flat fields are present; and rules 1-4 set
\* super alone, so that the cascade runs, with several fields for petrol
C25_Witness ==
    /\ extracted.done
    /\ \/ /\ Truthy(extracted.after4.diesel)
          /\ ~Truthy(extracted.after4.petrol)
          /\ Truthy(Prop(priceRecord, "unleaded"))
       \/ /\ Truthy(extracted.after4.super)
          /\ Truthy(Prop(priceRecord, "unleaded"))
          /\ Truthy(Prop(priceRecord, "petrol"))
          /\ Truthy(Prop(priceRecord, "super_unleaded_price"))
          /\ extracted.slots # extracted.after4

\* C25 (as stated): if rules 1-4 set petrol or diesel, no flat fallback
\* field changes any of the three price slots.
C25_SetSlotsBlockTheFallback ==
    (extracted.done /\ (extracted.after4.petrol # Null \/ extracted.after4.diesel # Null))
        => extracted.slots = extracted.after4

(***************************************************************************)
(* One station shown on the home screen, in the map list or in a callout   *)
(***************************************************************************)
MaxShownLive == 1   \* live stations of the matching run a shown station comes from

\* feed records of further brands, each with its retailer
BrandRecordPool ==
    {[retailer |-> Str(<<"S", "a", "i", "n", "s", "b", "u", "r", "y", "'", "s">>),
      rec |-> [t |-> "obj", id |-> Num(31 * Unit),
               prices |-> [t |-> "obj", E10 |-> Num(14790000)]]],
     [retailer |-> Str(<<"M", "o", "r", "r", "i", "s", "o", "n", "s">>),
      rec |-> [t |-> "obj", id |-> Num(32 * Unit), postcode |-> Str(Chars_SW1A1AA),
               prices |-> [t |-> "obj", E10 |-> Num(0), B7 |-> Num(15190000)]]],
     [retailer |-> Str(<<"A", "s", "d", "a">>),
      rec |-> [t |-> "obj", id |-> Num(33 * Unit), brand |-> Str(<<"A", "s", "d", "a", " ", "E", "x", "p", "r", "e", "s", "s">>),
               town |-> Str(Chars_Leeds),
               prices |-> [t |-> "obj", E10 |-> Num(14390000), B7 |-> Num(14990000)]]],
     [retailer |-> Str(Chars_Esso),
      rec |-> [t |-> "obj", id |-> Num(34 * Unit), unleaded |-> S_NA,
               diesel |-> Str(<<"1", "5", "2", ".", "9">>)]],
     [retailer |-> Str(Chars_Jet),
      rec |-> [t |-> "obj", id |-> Num(35 * Unit), brand |-> Num(5 * Unit),
               postcode |-> Str(Chars_SW1A1AA),
               prices |-> [t |-> "obj", E10 |-> Num(14890000)]]]}

\* allStations: what the normalizer makes of the records
AllStationsPool ==
    LivePool \cup
    {s \in {ParsedStation(r.rec, r.retailer, 0, 0) : r \in BrandRecordPool} : IsRetained(s)}

\* the entries of sequence s
Entries(s) == {s[i] : i \in DOMAIN s}

\* matchedStations: the entries of the matching runs on those stations at `time`
MatchedPool(time) ==
    UNION {Entries(matchStationsWithUKFuels(live, sites, averages, time).matched) :
              live \in SeqsUpTo(AllStationsPool, MaxShownLive),
              sites \in {d \in SeqsUpTo(SitePool, MaxSites) : IsInjective(d)},
              averages \in AveragesPool}

\* displayedStations holds allStations or matchedStations
ShownPool(time) == AllStationsPool \cup MatchedPool(time)

InitPricing ==
    /\ now \in 0 .. MaxDelay
    /\ cardStation \in ShownPool(now)
    /\ card = NoCard
    /\ policy = FUELQ_WEEKLY_PRICES
    /\ IdleMatch
    /\ IdleFeed
    /\ IdleApp

\* the home screen renders a StationCard for the station (a render replaces
\* what was rendered before)
RenderStationCard ==
    /\ card' = StationCard(cardStation)
    /\ UNCHANGED <<cardStation, policy, now, matchVars, feedVars, priceVars, appVars>>

\* the map screen's list renders the station
RenderStationItem ==
    /\ card' = renderStationItem(cardStation)
    /\ UNCHANGED <<cardStation, policy, now, matchVars, feedVars, priceVars, appVars>>

\* the map renders the station's callout
RenderCallout ==
    /\ Truthy(cardStation.latitude)
    /\ Truthy(cardStation.longitude)
    /\ card' = Callout(cardStation)
    /\ UNCHANGED <<cardStation, policy, now, matchVars, feedVars, priceVars, appVars>>

NextPricing == RenderStationCard \/ RenderStationItem \/ RenderCallout

SpecPricing == InitPricing /\ [][NextPricing]_vars

(***************************************************************************)
(* Properties of the pricing policy                                        *)
(***************************************************************************)
SupermarketNames ==
    {<<"A", "S", "D", "A">>, <<"T", "E", "S", "C", "O">>,
     <<"S", "A", "I", "N", "S", "B", "U", "R", "Y", "S">>,
     <<"S", "A", "I", "N", "S", "B", "U", "R", "Y", "'", "S">>,
     <<"M", "O", "R", "R", "I", "S", "O", "N", "S">>,
     <<"M", "O", "R", "R", "I", "S", "O", "N", "'", "S">>}

\* the station's brand, whatever its case, is one of the supermarket names
IsSupermarketStation ==
    /\ cardStation.brand.t = "str"
    /\ \E name \in SupermarketNames :
        /\ Len(name) = Len(cardStation.brand.s)
        /\ \A i \in DOMAIN name :
            cardStation.brand.s[i] \in {name[i], ToLowerChar(name[i])}

\* the station's card or list item has computed member prices
MemberPricesShown == card.rendered /\ card.view \in {"card", "item"}

\* C9: the member diesel price is 133.6 for a station of a supermarket brand
\* and 130.6 for any other, whatever the station's pump diesel price is,
\* absent included.
C9_MemberDieselByBrandOnly ==
    MemberPricesShown =>
        card.diesel = IF IsSupermarketStation THEN Num(13360000) ELSE Num(13060000)

\* a supermarket station without a pump diesel price
C9_Witness ==
    /\ MemberPricesShown
    /\ IsSupermarketStation
    /\ cardStation.diesel_price = Null
    /\ card.diesel = Num(13360000)

\* the petrol discount of the station's brand class, in units
DiscountUnits == IF IsSupermarketStation THEN 1 * Unit ELSE 3 * Unit

\* the station's pump petrol price in pounds per litre as a number: the
\* number itself, or the number a string price parses to
PumpPetrol == parseFloat(cardStation.petrol_price)

\* C10, as amended: for a station whose petrol price is a non-zero number p
\* (or a string parsing to one) the member petrol price in pence is
\* 100 * p - discount, 1 for a supermarket brand and 3 otherwise; for a
\* station whose petrol price is null, absent, zero or not a number it is null.
C10_MemberPetrolOfNonZeroPrice ==
    MemberPricesShown =>
        card.petrol = IF PumpPetrol.t = "num" /\ PumpPetrol.n # 0
                      THEN Num(100 * PumpPetrol.n - DiscountUnits)
                      ELSE Null

\* TESCO at 1.459 gives 144.9
C10_Witness ==
    /\ MemberPricesShown
    /\ ToUpperCase(cardStation.brand.s) = <<"T", "E", "S", "C", "O">>
    /\ cardStation.petrol_price = Num(145900)
    /\ card.petrol = Num(14490000)

\* C10, as stated: every station with a pump petrol price p has the member
\* petrol price 100 * p - discount; only a station without one has null.
C10_MemberPetrolOfAnyPrice ==
    MemberPricesShown =>
        card.petrol = IF PumpPetrol.t = "num"
                      THEN Num(100 * PumpPetrol.n - DiscountUnits)
                      ELSE Null

(***************************************************************************)
(* The filter effect after a pipeline pass and after typing in the search  *)
(* box                                                                     *)
(***************************************************************************)
QueryPool == {<<>>, <<"T", "E", "S">>, <<"b", "p">>, <<"4", "2">>, <<"z", "z">>}

\* the state a pass of fetchFuelPrices leaves: allStations, matchedStations
\* and, as showOnlyMatched is true, displayedStations = matched
InitFilter ==
    /\ \E live \in SeqsUpTo(LivePool, MaxLive),
          sites \in {d \in SeqsUpTo(SitePool, MaxSites) : IsInjective(d)} :
        /\ allStations = live
        /\ matchedStations
             = matchStationsWithUKFuels(live, sites, CHOOSE a \in AveragesPool : TRUE, 0).matched
    /\ displayedStations = IF showOnlyMatched THEN matchedStations ELSE allStations
    /\ searchQuery = <<>>
    /\ now = 0
    /\ IdleMatch
    /\ IdleFeed
    /\ IdleCard
    /\ IdleLoader
    /\ IdleFetch
    /\ IdleSession
    /\ IdlePrices

StationsToFilter == IF showOnlyMatched THEN matchedStations ELSE allStations

\* the effect runs after the pass has set its state
FilterAfterPass ==
    /\ displayedStations' = FilterEffect(StationsToFilter, searchQuery, displayedStations)
    /\ UNCHANGED <<allStations, matchedStations, searchQuery, now, matchVars, feedVars, priceVars, cardVars,
                   loaderVars, fetchVars, sessionVars>>

\* onChangeText={setSearchQuery}, and the effect that follows
ChangeSearchQuery ==
    /\ \E q \in QueryPool :
        /\ q # searchQuery
        /\ searchQuery' = q
        /\ displayedStations' = FilterEffect(StationsToFilter, q, displayedStations)
    /\ UNCHANGED <<allStations, matchedStations, now, matchVars, feedVars, priceVars, cardVars, loaderVars,
                   fetchVars, sessionVars>>

NextFilter == FilterAfterPass \/ ChangeSearchQuery

SpecFilter == InitFilter /\ [][NextFilter]_vars

(***************************************************************************)
(* Properties of the filter effect                                         *)
(***************************************************************************)
\* how often x occurs in the sequence s
Occurrences(s, x) == Cardinality({i \in DOMAIN s : s[i] = x})

\* station d without its distance
WithoutDistance(d) == [f \in DOMAIN d \ {"distance"} |-> d[f]]

\* d is a permutation of s with a distance added to each station
IsPermutationWithDistance(d, s) ==
    /\ Len(d) = Len(s)
    /\ \A i \in DOMAIN d : "distance" \in DOMAIN d[i]
    /\ \A i \in DOMAIN s :
        Occurrences([k \in DOMAIN d |-> WithoutDistance(d[k])], s[i]) = Occurrences(s, s[i])

\* the distance of d is the one from the reference location to its coordinates
HasFreshDistance(d) ==
    d.distance = Num(HaversineKm[<<d.latitude.n, d.longitude.n>>])

\* C11: when the filter step runs with an empty search query, the list it
\* sets is a permutation of the selected station set, each station with the
\* distance from the reference location to its coordinates, in
\* non-decreasing order of distance.
C11_EmptyQueryKeepsAllSorted ==
    [][searchQuery' = <<>> =>
          /\ IsPermutationWithDistance(displayedStations', StationsToFilter)
          /\ \A i \in DOMAIN displayedStations' : HasFreshDistance(displayedStations'[i])
          /\ \A i, j \in DOMAIN displayedStations' :
                i < j => displayedStations'[i].distance.n <= displayedStations'[j].distance.n]_vars

\* the step has run with an empty query and has moved a station forward
C11_Witness ==
    /\ searchQuery = <<>>
    /\ Len(displayedStations) >= 2
    /\ \A i \in DOMAIN displayedStations : "distance" \in DOMAIN displayedStations[i]
    /\ WithoutDistance(displayedStations[1]) # matchedStations[1]
    /\ displayedStations[1].distance.n < displayedStations[2].distance.n

\* q, compared case-insensitively, is a substring of a text field of the
\* station
TextFieldHolds(st, q) ==
    \E f \in {"name", "brand", "address", "postcode", "town"} :
        /\ st[f].t = "str"
        /\ Includes(ToLowerCase(st[f].s), ToLowerCase(q))

\* q is a substring of the stringified directory site number
SiteNumberHolds(st, q) ==
    /\ st.ukFuelsSiteNo.t \in {"num", "str"}
    /\ Includes(ToStringJS(st.ukFuelsSiteNo), q)

\* C27: for a non-empty search query q, the list the filter step sets holds
\* exactly the stations of the selected station set for which q, compared
\* case-insensitively, is a substring of the name, brand, address, postcode
\* or town, or a substring of the stringified directory site number: none
\* of them is dropped and no other station is kept.
C27_QueryKeepsExactlyTheMatches ==
    [][searchQuery' # <<>> =>
          LET Holds(st) == TextFieldHolds(st, searchQuery') \/ SiteNumberHolds(st, searchQuery')
          IN  IsPermutationWithDistance(displayedStations', SelectSeq(StationsToFilter, Holds))]_vars

\* a query that keeps a station by its site number alone and drops another
C27_Witness ==
    /\ searchQuery # <<>>
    /\ displayedStations # <<>>
    /\ Len(displayedStations) < Len(StationsToFilter)
    /\ \A i \in DOMAIN displayedStations :
        /\ ~TextFieldHolds(displayedStations[i], searchQuery)
        /\ SiteNumberHolds(displayedStations[i], searchQuery)

(***************************************************************************)
(* One call of loadUKFuelsSites                                            *)
(***************************************************************************)
\* sites of the directory body the loader's map callback throws for
BadRawSitePool ==
    {Null, [t |-> "obj", siteNo |-> Num(5 * Unit), name |-> Num(7 * Unit), petrol |-> Bool(TRUE)]}

\* the bodies of an OK answer
DirectoryBodies ==
    {[t |-> "unparsable"], Null, Str(<<"o", "o", "p", "s">>),
     [t |-> "obj", success |-> Bool(FALSE), error |-> Str(<<"o", "o", "p", "s">>)],
     [t |-> "obj", success |-> Bool(TRUE)],
     [t |-> "obj", success |-> Bool(TRUE), data |-> Str(<<"o", "o", "p", "s">>)]}
    \cup {[t |-> "obj", success |-> Bool(TRUE), data |-> List(l)] :
            l \in SeqsUpTo(RawSitePool \cup BadRawSitePool, MaxSites)}

\* what the directory source answers: the fetch is rejected, or has a status
\* and a body
DirectoryResponses ==
    {[kind |-> "rejected"], [kind |-> "http", ok |-> FALSE, body |-> Null]}
    \cup {[kind |-> "http", ok |-> TRUE, body |-> b] : b \in DirectoryBodies}

InitLoader ==
    /\ dirResponse \in DirectoryResponses
    /\ ukFuelsSites \in {<<>>} \cup {<<s>> : s \in SitePool}
    /\ loadResult = NoLoad
    /\ liveStations = <<>>
    /\ averagePrices = Undef
    /\ now = 0
    /\ matchResult = NoResult
    /\ rerunResult = NoResult
    /\ IdleFeed
    /\ IdleCard
    /\ IdleFilter
    /\ IdleFetch
    /\ IdleSession
    /\ IdlePrices

\* ukSites = await loadUKFuelsSites()
LoadUKFuelsSites ==
    /\ ~loadResult.done
    /\ loadResult' = [done |-> TRUE,
                      threw |-> loadUKFuelsSites(dirResponse, ukFuelsSites).threw,
                      sites |-> loadUKFuelsSites(dirResponse, ukFuelsSites).sites]
    /\ ukFuelsSites' = loadUKFuelsSites(dirResponse, ukFuelsSites).stored
    /\ UNCHANGED <<dirResponse, liveStations, averagePrices, now, matchResult, rerunResult,
                   feedVars, priceVars, cardVars, filterVars, fetchVars, sessionVars>>

NextLoader == LoadUKFuelsSites

SpecLoader == InitLoader /\ [][NextLoader]_vars

\* the answer holds a list of sites, each an object whose name, address, town,
\* postcode and brand are strings or absent
IsGoodDirectory(response) ==
    /\ response.kind = "http"
    /\ response.ok
    /\ response.body.t = "obj"
    /\ Truthy(Prop(response.body, "success"))
    /\ Prop(response.body, "data").t = "list"
    /\ \A i \in DOMAIN response.body.data.l :
        /\ response.body.data.l[i].t = "obj"
        /\ \A names \in {<<"name", "siteName">>, <<"addr", "street1">>, <<"town">>,
                         <<"postcode", "postCode">>, <<"brand">>} :
            FirstTruthy([k \in DOMAIN names |-> Prop(response.body.data.l[i], names[k])],
                        Str(<<>>)).t = "str"

\* C17: when the directory request fails, has a non-OK status, has an
\* unsuccessful or unparsable body, or holds a site that cannot be converted,
\* loadUKFuelsSites returns the empty list, throws nothing to its caller and
\* leaves the stored directory as it was.
C17_LoaderFailsSoft ==
    [][(loadResult'.done /\ ~loadResult.done /\ ~IsGoodDirectory(dirResponse)) =>
          /\ ~loadResult'.threw
          /\ loadResult'.sites = <<>>
          /\ ukFuelsSites' = ukFuelsSites]_vars

\* the loader has returned for a body with a convertible site and one that
\* cannot be converted, and a directory was stored before
C17_Witness ==
    /\ loadResult.done
    /\ dirResponse.kind = "http"
    /\ dirResponse.ok
    /\ dirResponse.body.t = "obj"
    /\ Prop(dirResponse.body, "data").t = "list"
    /\ \E i, j \in DOMAIN Prop(dirResponse.body, "data").l :
        /\ dirResponse.body.data.l[i] \in RawSitePool
        /\ dirResponse.body.data.l[j] \in BadRawSitePool
    /\ ukFuelsSites # <<>>

(***************************************************************************)
(* One pass of fetchFuelPrices, and the filter effect after it             *)
(***************************************************************************)
MaxFeeds == 2   \* retailers in the worker's answer
MaxSeed == 1    \* outcomes of the random draws

RetailerNames == <<Chars_Tesco, Chars_Shell, Chars_BP, Chars_Esso>>

\* the payloads of the results that carry data
ResultPayloads ==
    {List(<<r.rec>>) : r \in {x \in LiveRecordPool : x.retailer = Str(Chars_Tesco)}}
    \cup {[t |-> "obj", keys |-> <<"stations">>, stations |-> List(<<a.rec, b.rec>>)] :
            a \in {x \in LiveRecordPool : x.retailer = Str(Chars_Esso)},
            b \in {x \in LiveRecordPool : x.retailer = Str(Chars_Jet)}}
    \cup {[t |-> "obj", keys |-> <<"error">>, error |-> Str(<<"o", "o", "p", "s">>)]}

\* one retailer's result in the worker's answer: successful, failed,
\* successful without data, failed with data, null
RetailerResults ==
    {[t |-> "obj", success |-> Bool(TRUE), data |-> d] : d \in ResultPayloads}
    \cup {[t |-> "obj", success |-> Bool(FALSE), error |-> Str(<<"t", "i", "m", "e", "o", "u", "t">>)],
          [t |-> "obj", success |-> Bool(TRUE)],
          [t |-> "obj", success |-> Bool(FALSE),
           data |-> CHOOSE d \in ResultPayloads : d.t = "list"],
          Null}

SummaryEntry ==
    [name |-> S_summary, result |-> [t |-> "obj", total |-> Num(2 * Unit)]]

\* Object.entries(allData) of the worker's answers: the retailers in the
\* order of the body, behind the _summary or without one
WorkerBodies ==
    {[t |-> "unparsable"], Null}
    \cup {[t |-> "obj", entries |-> s \o [k \in DOMAIN r |-> [name |-> RetailerNames[k], result |-> r[k]]]] :
            s \in {<<>>, <<SummaryEntry>>}, r \in SeqsUpTo(RetailerResults, MaxFeeds)}

WorkerResponses ==
    {[kind |-> "rejected"], [kind |-> "http", ok |-> FALSE, body |-> Null]}
    \cup {[kind |-> "http", ok |-> TRUE, body |-> b] : b \in WorkerBodies}

InitFetch ==
    /\ workerResponse \in WorkerResponses
    /\ demoSeed \in 0 .. MaxSeed
    /\ dirResponse \in
         {[kind |-> "rejected"],
          [kind |-> "http", ok |-> TRUE,
           body |-> [t |-> "obj", success |-> Bool(TRUE),
                     data |-> List([k \in 1 .. 2 |->
                                      CHOOSE s \in RawSitePool : s.siteNo = Num(<<42, 7>>[k] * Unit)])]]}
    /\ ukFuelsSites \in {<<>>} \cup {<<s>> : s \in {x \in SitePool : x.siteNo = Num(9 * Unit)}}
    /\ now \in 0 .. MaxDelay
    /\ fetched = NoFetch
    /\ loadResult = NoLoad
    /\ liveStations = <<>>
    /\ averagePrices = Undef
    /\ matchResult = NoResult
    /\ rerunResult = NoResult
    /\ IdleFeed
    /\ IdleCard
    /\ IdleFilter
    /\ IdleSession
    /\ IdlePrices

\* the state the pass sets, given the directory it uses (dir), the stations
\* it collected (coll) and the result of the matching call (res)
PassSets(dir, coll, res) ==
    /\ ukFuelsSites' = dir.stored
    /\ matchedStations' = res.matched
    /\ allStations' = coll.stations
    /\ displayedStations' = IF showOnlyMatched THEN res.matched ELSE coll.stations
    /\ fetched' = [done |-> TRUE, requested |-> dir.requested, stations |-> coll.stations,
                   successfulFeeds |-> coll.successfulFeeds,
                   liveStationsCount |-> res.liveCount,
                   fuelPrices |->
                       ProcessedAverages(IF showOnlyMatched THEN res.matched ELSE coll.stations)]

PassMatches(dir, coll) ==
    PassSets(dir, coll,
             matchStationsWithUKFuels(coll.stations, dir.ukSites, AveragesOf(coll.stations), now))

\* fetchFuelPrices(), with no other invocation in flight
FetchFuelPrices ==
    /\ ~fetched.done
    /\ PassMatches(DirectoryForPass(ukFuelsSites, dirResponse),
                   CollectStations(workerResponse, demoSeed, now))
    /\ UNCHANGED <<searchQuery, dirResponse, loadResult, workerResponse, demoSeed, liveStations,
                   averagePrices, now, matchResult, rerunResult, feedVars, priceVars, cardVars, sessionVars>>

NextFetch == FetchFuelPrices \/ FilterAfterPass

SpecFetch == InitFetch /\ [][NextFetch]_vars

\* the worker answered with a body that lists retailer results
HasRetailerResults == workerResponse.kind = "http" /\ workerResponse.ok /\ workerResponse.body.t = "obj"

\* the result of a retailer is successful
IsSuccessful(entry) == entry.name # S_summary /\ Truthy(Prop(entry.result, "success"))

\* the normalizer's outputs for the successful results from entry i on, one
\* after the other
RECURSIVE SuccessfulOutputs(_, _)
SuccessfulOutputs(entries, i) ==
    IF i > Len(entries) THEN <<>>
    ELSE (IF IsSuccessful(entries[i])
          THEN parseStationData(Prop(entries[i].result, "data"), Str(entries[i].name), now)
          ELSE <<>>)
         \o SuccessfulOutputs(entries, i + 1)

\* C16: for every combination of failed, malformed and successful retailer
\* results, the stations collected in one pass are the concatenation of the
\* normalizer's outputs for the retailers whose result is successful: a
\* failed or malformed result contributes nothing and changes nothing of
\* the others.
C16_CollectedAreSuccessfulOutputs ==
    (fetched.done /\ HasRetailerResults) =>
        fetched.stations = SuccessfulOutputs(workerResponse.body.entries, 1)

(***************************************************************************)
(* The screens under the pricing policy of another week                    *)
(***************************************************************************)
\* the policy object of a build: the shipped one, one with other prices,
\* and ones with a negative price or discount
PolicyPool ==
    {FUELQ_WEEKLY_PRICES,
     [FUELQ_WEEKLY_PRICES EXCEPT !.diesel = Pence(128, 9), !.dieselSupermarket = Pence(131, 9)],
     [FUELQ_WEEKLY_PRICES EXCEPT !.petrolDiscount = Num(0)],
     [FUELQ_WEEKLY_PRICES EXCEPT !.diesel = Num(-1 * Unit)],
     [FUELQ_WEEKLY_PRICES EXCEPT !.dieselSupermarket = Num(-1 * Unit)],
     [FUELQ_WEEKLY_PRICES EXCEPT !.petrolDiscount = Num(-3 * Unit)],
     [FUELQ_WEEKLY_PRICES EXCEPT !.petrolDiscountSupermarket = Num(-1 * Unit)]}

InitPolicy ==
    /\ policy \in PolicyPool
    /\ now = 0
    /\ cardStation \in ShownPool(now)
    /\ card = NoCard
    /\ IdleMatch
    /\ IdleFeed
    /\ IdleApp

SpecPolicy == InitPolicy /\ [][NextPricing]_vars

\* no diesel price and no petrol discount of the policy is negative
IsValidPolicy(p) ==
    \A f \in {"diesel", "dieselSupermarket", "petrolDiscount", "petrolDiscountSupermarket"} :
        p[f].t = "num" /\ p[f].n >= 0

\* C18: deriving member prices under a policy with a negative diesel price
\* or a negative petrol discount is signalled as a failure and yields no
\* member prices; under a valid policy the derivation raises for no station.
C18_InvalidPolicyFailsValidNeverRaises ==
    card.view \in {"card", "item"} =>
        IF IsValidPolicy(policy) THEN ~card.threw ELSE ~card.rendered

(***************************************************************************)
(* A session: mount, login, guest entry, logout, navigation, refresh, and  *)
(* the invocations of fetchFuelPrices they start                           *)
(***************************************************************************)
MaxRuns == 2       \* invocations of fetchFuelPrices in flight at once
MaxRequests == 3   \* requests to the directory source that are counted

Screens == {"dashboard", "map", "news", "offers", "account"}

\* an invocation at its first await: let ukSites = ukFuelsSites; with an
\* empty list it awaits loadUKFuelsSites(), else the worker
NewRun(origin, stored) ==
    [origin |-> origin,
     pc |-> IF Len(stored) = 0 THEN "directory" ELSE "worker",
     requested |-> Len(stored) = 0,
     ukSites |-> stored]

\* the effects that run after a commit changed isLoggedIn or activeScreen,
\* in the order of their declaration: each starts an invocation
EffectsAfter(old, new) ==
    (IF new.isLoggedIn /\ ~old.isLoggedIn THEN <<"login">> ELSE <<>>)
       \o (IF new.activeScreen # old.activeScreen /\ new.activeScreen \in {"map", "dashboard"}
           THEN <<"screen">> ELSE <<>>)

\* a commit of the session state and the invocations (origins) it starts
Starts(new, origins) ==
    /\ Len(runs) + Len(origins) <= MaxRuns
    /\ Len(ukFuelsSites) = 0 => directoryRequests + Len(origins) <= MaxRequests
    /\ session' = new
    /\ runs' = runs \o [k \in DOMAIN origins |-> NewRun(origins[k], ukFuelsSites)]
    /\ directoryRequests' =
         directoryRequests + (IF Len(ukFuelsSites) = 0 THEN Len(origins) ELSE 0)
    /\ UNCHANGED <<now, matchVars, feedVars, priceVars, cardVars, filterVars, loaderVars, fetchVars>>

\* a commit with its effects; an effect sets loading before it starts the
\* invocation
Commits(new) ==
    Starts([new EXCEPT !.loading = IF EffectsAfter(session, new) # <<>> THEN TRUE ELSE @],
           EffectsAfter(session, new))

InitSession ==
    /\ IdleSession
    /\ IdlePrices
    /\ ukFuelsSites = <<>>
    /\ liveStations = <<>>
    /\ averagePrices = Undef
    /\ now = 0
    /\ matchResult = NoResult
    /\ rerunResult = NoResult
    /\ IdleFeed
    /\ IdleCard
    /\ IdleFilter
    /\ IdleLoader
    /\ IdleFetch

\* the component mounts: the effect on [activeScreen] runs with 'dashboard'
\* (the effect on [isLoggedIn] finds isLoggedIn false)
Mount ==
    /\ ~session.mounted
    /\ Starts([session EXCEPT !.mounted = TRUE, !.loading = TRUE], <<"screen">>)

\* handleLogin with the right or the wrong credentials
HandleLogin ==
    /\ session.mounted
    /\ ~session.isLoggedIn
    /\ \E valid \in BOOLEAN :
        Commits(IF valid
                THEN [session EXCEPT !.isLoggedIn = TRUE, !.userType = "member",
                                     !.activeScreen = "dashboard"]
                ELSE session)

\* handleGuestAccess
HandleGuestAccess ==
    /\ session.mounted
    /\ ~session.isLoggedIn
    /\ Commits([session EXCEPT !.isLoggedIn = TRUE, !.userType = "guest", !.activeScreen = "map"])

\* handleLogout, confirmed: the Sign Out button is on the account screen
HandleLogout ==
    /\ session.isLoggedIn
    /\ session.activeScreen = "account"
    /\ Commits([session EXCEPT !.isLoggedIn = FALSE, !.userType = "guest",
                               !.activeScreen = "dashboard"])

\* faulty variant: the navigation bar restricts no item
Navigate_Unrestricted ==
    /\ session.isLoggedIn
    /\ \E item \in Screens : Commits([session EXCEPT !.activeScreen = item])

\* a tap on an item of BottomNavigation
Navigate ==
    /\ session.isLoggedIn
    /\ \E item \in Screens :
        Commits(IF session.userType = "guest" /\ item # "map"
                THEN [session EXCEPT !.restrictedScreen = item, !.showRestrictedModal = TRUE]
                ELSE [session EXCEPT !.activeScreen = item])

\* the dashboard's profile button and its two links to the map
DashboardShortcut ==
    /\ session.isLoggedIn
    /\ session.activeScreen = "dashboard"
    /\ \E target \in {"account", "map"} : Commits([session EXCEPT !.activeScreen = target])

\* the restricted modal is closed: its close button, its backdrop, Apply
\* Now or Continue as Guest
CloseRestrictedModal ==
    /\ session.isLoggedIn
    /\ session.showRestrictedModal
    /\ Commits([session EXCEPT !.showRestrictedModal = FALSE])

\* onRefresh: pull-to-refresh or Retry on the map screen
OnRefresh ==
    /\ session.isLoggedIn
    /\ session.activeScreen = "map"
    /\ Starts([session EXCEPT !.refreshing = TRUE], <<"refresh">>)

\* the answers of the directory source in a session
SessionDirectoryResponses ==
    {[kind |-> "rejected"],
     [kind |-> "http", ok |-> TRUE,
      body |-> [t |-> "obj", success |-> Bool(TRUE),
                data |-> List(<<CHOOSE s \in RawSitePool : s.siteNo = Num(42 * Unit)>>)]]}

\* the answer of the worker in a session: one retailer, read successfully
SessionWorkerResponses ==
    {[kind |-> "http", ok |-> TRUE,
      body |-> [t |-> "obj",
                entries |-> <<[name |-> Chars_Tesco,
                               result |-> CHOOSE r \in RetailerResults :
                                              /\ Truthy(Prop(r, "success"))
                                              /\ Prop(r, "data").t = "list"]>>]]}

\* the list loadUKFuelsSites returns to invocation i, and the state it sets
DirectoryReturns(i, out) ==
    /\ ukFuelsSites' = out.stored
    /\ runs' = [runs EXCEPT ![i].pc = "worker", ![i].ukSites = out.sites]

\* the directory source answers invocation i
DirectoryAnswers ==
    /\ \E i \in DOMAIN runs, response \in SessionDirectoryResponses :
        /\ runs[i].pc = "directory"
        /\ DirectoryReturns(i, loadUKFuelsSites(response, ukFuelsSites))
    /\ UNCHANGED <<session, directoryRequests, liveStations, averagePrices, now,
                   matchResult, rerunResult, feedVars, priceVars, cardVars, filterVars, loaderVars, fetchVars>>

\* .finally(() => setLoading(false)) of an effect, setRefreshing(false) of
\* onRefresh
SessionAfterRun(origin) ==
    IF origin = "refresh" THEN [session EXCEPT !.refreshing = FALSE]
    ELSE [session EXCEPT !.loading = FALSE]

\* the worker answers invocation i, which runs to its end
WorkerAnswers ==
    /\ \E i \in DOMAIN runs, response \in SessionWorkerResponses :
        /\ runs[i].pc = "worker"
        /\ PassMatches([requested |-> runs[i].requested, ukSites |-> runs[i].ukSites,
                        stored |-> ukFuelsSites],
                       CollectStations(response, 0, now))
        /\ session' = SessionAfterRun(runs[i].origin)
        /\ runs' = SubSeq(runs, 1, i - 1) \o SubSeq(runs, i + 1, Len(runs))
    /\ UNCHANGED <<directoryRequests, searchQuery, liveStations, averagePrices, now,
                   matchResult, rerunResult, feedVars, priceVars, cardVars, loaderVars, workerResponse,
                   demoSeed>>

NextSession ==
    \/ Mount
    \/ HandleLogin
    \/ HandleGuestAccess
    \/ HandleLogout
    \/ Navigate
    \/ DashboardShortcut
    \/ CloseRestrictedModal
    \/ OnRefresh
    \/ DirectoryAnswers
    \/ WorkerAnswers

SpecSession == InitSession /\ [][NextSession]_vars

\* C20: over any sequence of app start, login or guest entry, screen changes
\* and pull-to-refresh within one session, the directory source is requested
\* at most once.
C20_DirectoryRequestedAtMostOnce == directoryRequests <= 1

\* C29: whenever an invocation of fetchFuelPrices started by the login
\* effect or by the screen-change effect is still in flight, the loading
\* flag is true; with overlapping invocations loading stays true until the
\* last of them has completed.
C29_LoadingWhileInFlight ==
    (\E i \in DOMAIN runs : runs[i].origin \in {"login", "screen"}) => session.loading

\* C30: in every state reachable by login, guest entry, logout and
\* navigation, a logged-in guest has activeScreen = 'map'; a guest's tap on
\* any other navigation item opens the restricted modal for that item and
\* leaves activeScreen unchanged.
C30_GuestStaysOnMap ==
    /\ []((session.isLoggedIn /\ session.userType = "guest") => session.activeScreen = "map")
    /\ [][(Navigate /\ session.userType = "guest") =>
              /\ session'.activeScreen = session.activeScreen
              /\ session'.restrictedScreen # "map"
              /\ session' # session => session'.showRestrictedModal]_vars

\* a guest has tapped the account item: the modal is open for it
C30_Witness ==
    /\ session.isLoggedIn
    /\ session.userType = "guest"
    /\ session.showRestrictedModal
    /\ session.restrictedScreen = "account"
    /\ session.activeScreen = "map"

====
